---- MODULE Spec2Model ----
(***************************************************************************)
(* Bond portfolio dashboard (bond-wise-insight): the spreadsheet ingestion *)
(* of BondAnalyzer and the aggregation of BondAnalysisView, BondTable and  *)
(* BondDetailsModal.                                                       *)
(*                                                                         *)
(* Conventions of the model                                                *)
(*  - a JavaScript string is a sequence of one-character strings;          *)
(*  - a JavaScript number is an integer, or NaN; money amounts are whole   *)
(*    rupees, so sums are exact (IEEE rounding is not modelled);           *)
(*  - a Date is a calendar day [y, m, d] (m in 1..12) or InvalidDate; the  *)
(*    local time zone is taken east of or at UTC (the application formats  *)
(*    for en-IN), so that a UTC midnight and a local midnight name the     *)
(*    same calendar day;                                                   *)
(*  - "now" (new Date()) is a calendar day with a time of day strictly     *)
(*    after midnight.                                                      *)
(***************************************************************************)
EXTENDS Integers, Sequences, FiniteSets, TLC

VARIABLES
    bondData,        \* BondAnalyzer state / BondAnalysisView prop: BondData[]
    repaymentData,   \* BondAnalyzer state / BondAnalysisView prop: RepaymentData[]
    pivotData,       \* BondAnalyzer state: PivotData
    isUploading,     \* BondAnalyzer state
    hasData,         \* BondAnalyzer state
    toasts,          \* notifications emitted so far (useToast)
    uploads,         \* handleFileUpload executions awaiting file.arrayBuffer()
    durationFilter,  \* BondAnalysisView state
    durationView,    \* BondAnalysisView state
    selectedBond,    \* BondAnalysisView state (props of BondDetailsModal)
    now,             \* the calendar day of new Date()
    sheet,           \* the worksheet handed to a parser; in Spec the workbook last read
    parsed,          \* what the parser returned; in Spec parsedData and repaymentParsedData
    memo             \* BondAnalysisView: the useMemo cells (dependencies and value)

vars == <<bondData, repaymentData, pivotData, isUploading, hasData, toasts,
          uploads, durationFilter, durationView, selectedBond, now, sheet, parsed,
          memo>>

(***************************************************************************)
(* JavaScript values                                                       *)
(***************************************************************************)

\* Number.NaN: a value outside every number the model computes.
NaN == -(10^9)

\* a + b of JavaScript numbers
Add(a, b) == IF a = NaN \/ b = NaN THEN NaN ELSE a + b

\* a < b, a <= b, a > b of JavaScript numbers: false when either is NaN
JsLt(a, b) == a # NaN /\ b # NaN /\ a < b
JsLe(a, b) == a # NaN /\ b # NaN /\ a <= b

\* Math.max(a, b)
MathMax(a, b) == IF a = NaN \/ b = NaN THEN NaN ELSE IF a >= b THEN a ELSE b

\* a / b as an exact quotient [n, d]; d = 0 is the non-finite result of a
\* division by zero (0/0 is NaN).
Quot(a, b) == [n |-> a, d |-> b]
\* the literal 0 a guard returns
Zero == Quot(0, 1)
IsFinite(q) == q.d # 0
QuotEq(p, q) == IsFinite(p) /\ IsFinite(q) /\ p.n * q.d = q.n * p.d

Digits == {"0", "1", "2", "3", "4", "5", "6", "7", "8", "9"}
DigitVal(c) == CASE c = "0" -> 0 [] c = "1" -> 1 [] c = "2" -> 2 [] c = "3" -> 3
                 [] c = "4" -> 4 [] c = "5" -> 5 [] c = "6" -> 6 [] c = "7" -> 7
                 [] c = "8" -> 8 [] c = "9" -> 9
DigitChar(n) == <<"0", "1", "2", "3", "4", "5", "6", "7", "8", "9">>[n + 1]

Upper == <<"A","B","C","D","E","F","G","H","I","J","K","L","M",
           "N","O","P","Q","R","S","T","U","V","W","X","Y","Z">>
Lower == <<"a","b","c","d","e","f","g","h","i","j","k","l","m",
           "n","o","p","q","r","s","t","u","v","w","x","y","z">>
Letters == {Upper[i] : i \in 1..26} \cup {Lower[i] : i \in 1..26}

\* String.prototype.toLowerCase
LowerChar(c) == IF \E i \in 1..26 : Upper[i] = c
                THEN Lower[CHOOSE i \in 1..26 : Upper[i] = c] ELSE c
toLowerCase(s) == [i \in 1..Len(s) |-> LowerChar(s[i])]

\* String.prototype.includes
includes(s, sub) ==
    \E i \in 1..(Len(s) - Len(sub) + 1) : SubSeq(s, i, i + Len(sub) - 1) = sub

\* String.prototype.trim
RECURSIVE trimStart(_)
trimStart(s) == IF s # <<>> /\ Head(s) = " " THEN trimStart(Tail(s)) ELSE s
RECURSIVE trimEnd(_)
trimEnd(s) == IF s # <<>> /\ s[Len(s)] = " " THEN trimEnd(SubSeq(s, 1, Len(s) - 1)) ELSE s
trim(s) == trimEnd(trimStart(s))

\* String.prototype.split(sep) for a one-character separator
RECURSIVE split(_, _)
split(s, sep) ==
    IF \E i \in 1..Len(s) : s[i] = sep
    THEN LET i == CHOOSE k \in 1..Len(s) : s[k] = sep /\ \A j \in 1..(k - 1) : s[j] # sep
         IN  <<SubSeq(s, 1, i - 1)>> \o split(SubSeq(s, i + 1, Len(s)), sep)
    ELSE <<s>>

\* Array.prototype.reverse and Array.prototype.join(sep)
reverse(a) == [i \in 1..Len(a) |-> a[Len(a) + 1 - i]]
RECURSIVE join(_, _)
join(a, sep) == IF a = <<>> THEN <<>>
                ELSE IF Len(a) = 1 THEN a[1]
                ELSE a[1] \o <<sep>> \o join(Tail(a), sep)

RECURSIVE DigitPrefix(_)
DigitPrefix(s) == IF s = <<>> \/ Head(s) \notin Digits THEN <<>>
                  ELSE <<Head(s)>> \o DigitPrefix(Tail(s))
RECURSIVE DigitsToNat(_)
DigitsToNat(ds) == IF ds = <<>> THEN 0
                   ELSE DigitsToNat(SubSeq(ds, 1, Len(ds) - 1)) * 10 + DigitVal(ds[Len(ds)])

\* parseInt(s): leading blanks, a sign, then the longest run of digits
parseInt(s) ==
    LET t  == trimStart(s)
        u  == IF t # <<>> /\ Head(t) \in {"-", "+"} THEN Tail(t) ELSE t
        ds == DigitPrefix(u)
    IN  IF ds = <<>> THEN NaN
        ELSE IF Head(t) = "-" THEN 0 - DigitsToNat(ds) ELSE DigitsToNat(ds)

\* Number.prototype.toString of an integer
RECURSIVE NatToString(_)
NatToString(n) == IF n < 10 THEN <<DigitChar(n)>>
                  ELSE NatToString(n \div 10) \o <<DigitChar(n % 10)>>
NumToString(n) == IF n = NaN THEN <<"N", "a", "N">>
                  ELSE IF n < 0 THEN <<"-">> \o NatToString(0 - n) ELSE NatToString(n)

\* String(n).padStart(2, '0')
padStart2(s) == IF Len(s) < 2 THEN <<"0">> \o s ELSE s

(***************************************************************************)
(* Dates                                                                   *)
(***************************************************************************)

\* new Date(NaN), and every Date made from text that is no date
InvalidDate == [y |-> 0, m |-> 0, d |-> 0]
IsValidDate(dt) == dt # InvalidDate

IsLeap(y) == (y % 4 = 0 /\ y % 100 # 0) \/ y % 400 = 0
DaysInMonth(y, m) == IF m = 2 THEN (IF IsLeap(y) THEN 29 ELSE 28)
                     ELSE IF m \in {4, 6, 9, 11} THEN 30 ELSE 31

\* new Date(year, monthIndex, day): monthIndex counts from 0; a month index
\* or a day outside its range carries into the next or previous month.
RECURSIVE NormalizeDay(_, _, _)
NormalizeDay(y, m, d) ==
    IF d > DaysInMonth(y, m)
    THEN NormalizeDay(IF m = 12 THEN y + 1 ELSE y, IF m = 12 THEN 1 ELSE m + 1,
                      d - DaysInMonth(y, m))
    ELSE IF d < 1
    THEN LET py == IF m = 1 THEN y - 1 ELSE y
             pm == IF m = 1 THEN 12 ELSE m - 1
         IN  NormalizeDay(py, pm, d + DaysInMonth(py, pm))
    ELSE [y |-> y, m |-> m, d |-> d]
\* A year 0..99 names 1900..1999.
NewDateYMD(year, monthIndex, day) ==
    IF year = NaN \/ monthIndex = NaN \/ day = NaN THEN InvalidDate
    ELSE LET full   == IF year \in 0..99 THEN 1900 + year ELSE year
             months == full * 12 + monthIndex
         IN  NormalizeDay(months \div 12, (months % 12) + 1, day)

IsDigitString(s) == s # <<>> /\ \A i \in 1..Len(s) : s[i] \in Digits

\* new Date(text) for the text "Y-M-D" that split('/').reverse().join('-')
\* makes of "D/M/Y"; any other text gives an invalid Date.
NewDateString(s) ==
    LET parts == split(s, "-")
    IN  IF Len(parts) = 3 /\ \A i \in 1..3 : IsDigitString(parts[i])
           /\ Len(parts[1]) = 4
           /\ DigitsToNat(parts[2]) \in 1..12
           /\ DigitsToNat(parts[3]) \in 1..DaysInMonth(DigitsToNat(parts[1]), DigitsToNat(parts[2]))
        THEN [y |-> DigitsToNat(parts[1]), m |-> DigitsToNat(parts[2]),
              d |-> DigitsToNat(parts[3])]
        ELSE InvalidDate

\* new Date(str.split('/').reverse().join('-'))
ParseDMY(str) == NewDateString(join(reverse(split(str, "/")), "-"))

\* Date.prototype.getFullYear, getMonth (0-based), getDate
getFullYear(dt) == IF IsValidDate(dt) THEN dt.y ELSE NaN
getMonth(dt) == IF IsValidDate(dt) THEN dt.m - 1 ELSE NaN
getDate(dt) == IF IsValidDate(dt) THEN dt.d ELSE NaN

\* The instant of a Date at midnight, and of "now" (after midnight of its
\* day), on one scale: what <, <= and getTime() compare.
DayNumber(dt) == (dt.y * 12 + (dt.m - 1)) * 31 + (dt.d - 1)
getTime(dt) == IF IsValidDate(dt) THEN 2 * DayNumber(dt) ELSE NaN
NowTime(today) == 2 * DayNumber(today) + 1

MonthShort == << <<"J","a","n">>, <<"F","e","b">>, <<"M","a","r">>, <<"A","p","r">>,
                 <<"M","a","y">>, <<"J","u","n">>, <<"J","u","l">>, <<"A","u","g">>,
                 <<"S","e","p">>, <<"O","c","t">>, <<"N","o","v">>, <<"D","e","c">> >>
InvalidDateText == <<"I","n","v","a","l","i","d"," ","D","a","t","e">>

\* date.toLocaleDateString('en-US', { month: 'short', year: 'numeric' })
toLocaleMonthYear(dt) ==
    IF IsValidDate(dt) THEN MonthShort[dt.m] \o <<" ">> \o NumToString(dt.y)
    ELSE InvalidDateText

(***************************************************************************)
(* BondAnalyzer: the derived fields of a BondData record                   *)
(***************************************************************************)

\* [A-Za-z]+'\d+ matching all of t
MatchesMonthApostropheYear(t) ==
    \E k \in 1..(Len(t) - 2) :
        /\ \A i \in 1..k : t[i] \in Letters
        /\ t[k + 1] = "'"
        /\ IsDigitString(SubSeq(t, k + 2, Len(t)))
\* \s+[A-Za-z]+'\d+ matching all of t
MatchesSpaceMonthYear(t) ==
    \E k \in 1..Len(t) :
        /\ \A i \in 1..k : t[i] = " "
        /\ MatchesMonthApostropheYear(SubSeq(t, k + 1, Len(t)))
\* -\d+(\s+[A-Za-z]+'\d+)? matching all of t
MatchesDashSeries(t) ==
    /\ t # <<>> /\ Head(t) = "-"
    /\ \E k \in 2..Len(t) :
        /\ IsDigitString(SubSeq(t, 2, k))
        /\ (k = Len(t) \/ MatchesSpaceMonthYear(SubSeq(t, k + 1, Len(t))))
\* \s+\d+ matching all of t
MatchesSpaceNumber(t) ==
    \E k \in 1..(Len(t) - 1) :
        /\ \A i \in 1..k : t[i] = " "
        /\ IsDigitString(SubSeq(t, k + 1, Len(t)))

\* Whether the named pattern of extractBondIssuer matches all of t
MatchesPattern(pattern, t) ==
    CASE pattern = "dash-series" -> MatchesDashSeries(t)
      [] pattern = "month-year" -> MatchesSpaceMonthYear(t)
      [] pattern = "number" -> MatchesSpaceNumber(t)

\* s.replace(/<pattern>$/, ''): the leftmost suffix the pattern matches is cut
ReplaceSuffix(s, pattern) ==
    IF \E i \in 1..Len(s) : MatchesPattern(pattern, SubSeq(s, i, Len(s)))
    THEN LET i == CHOOSE k \in 1..Len(s) :
                      /\ MatchesPattern(pattern, SubSeq(s, k, Len(s)))
                      /\ \A j \in 1..(k - 1) : ~MatchesPattern(pattern, SubSeq(s, j, Len(s)))
         IN  SubSeq(s, 1, i - 1)
    ELSE s

extractBondIssuer(bondName) ==
    trim(ReplaceSuffix(ReplaceSuffix(ReplaceSuffix(bondName, "dash-series"),
                                     "month-year"),
                       "number"))

\* The Date both formatMonthYear and isMatured build from the cell text.
DateOfCellText(dateStr) ==
    LET parts == split(dateStr, "/")
    IN  IF Len(parts) = 3
        THEN NewDateYMD(parseInt(parts[3]), Add(parseInt(parts[2]), -1), parseInt(parts[1]))
        ELSE NewDateString(dateStr)

\* toLocaleDateString does not throw on an invalid Date: it returns the text
\* "Invalid Date", so the catch branch is never taken.
formatMonthYear(dateStr) == toLocaleMonthYear(DateOfCellText(dateStr))

isMatured(maturityDateStr, today) ==
    JsLt(getTime(DateOfCellText(maturityDateStr)), NowTime(today))

\* The BondData literal of cleanAndParseData.
MakeBond(bondName, isin, units, investedAmount, dateOfInvestment, maturityDate, xirr, interestFrequency, today) ==
    [bondName          |-> bondName,
     isin              |-> isin,
     units             |-> units,
     investedAmount    |-> investedAmount,
     dateOfInvestment  |-> dateOfInvestment,
     maturityDate      |-> maturityDate,
     xirr              |-> xirr,
     interestFrequency |-> interestFrequency,
     bondIssuer        |-> extractBondIssuer(bondName),
     matured           |-> isMatured(maturityDate, today),
     monthYear         |-> formatMonthYear(dateOfInvestment)]

(***************************************************************************)
(* BondAnalysisView: the filtered set, the pivot and the averages          *)
(***************************************************************************)

DurationFilters == {"This Year", "Last Year", "All Time"}
DurationViews == {"Years", "Quarters", "Months"}

\* An object literal {} and the lookup of a key in it
EmptyObject == <<>>
HasKey(obj, key) == key \in DOMAIN obj
Put(obj, key, value) == [k \in DOMAIN obj \cup {key} |-> IF k = key THEN value ELSE obj[k]]

RECURSIVE SumSeq(_)
SumSeq(xs) == IF xs = <<>> THEN 0 ELSE Add(SumSeq(SubSeq(xs, 1, Len(xs) - 1)), xs[Len(xs)])

\* A filter that tests bond.matured only inside the year cases.
InFilterMaturedKeptForAllTime(bond, filter, today) ==
    LET investmentYear == getFullYear(ParseDMY(bond.dateOfInvestment))
    IN  CASE filter = "This Year" -> ~bond.matured /\ investmentYear = today.y
          [] filter = "Last Year" -> ~bond.matured /\ investmentYear = today.y - 1
          [] OTHER -> TRUE

\* The predicate of bondData.filter in filteredData.
InFilter(bond, filter, today) ==
    /\ ~bond.matured
    /\ LET investmentYear == getFullYear(ParseDMY(bond.dateOfInvestment))
           currentYear    == today.y
       IN  CASE filter = "This Year" -> investmentYear = currentYear
             [] filter = "Last Year" -> investmentYear = currentYear - 1
             [] OTHER -> TRUE

filteredData(data, filter, today) ==
    SelectSeq(data, LAMBDA bond : InFilter(bond, filter, today))

\* A quarter number rounded down instead of up.
QuarterOfFloor(dt) == IF IsValidDate(dt) THEN dt.m \div 3 ELSE NaN

\* Math.ceil((getMonth() + 1) / 3)
QuarterOf(dt) == IF IsValidDate(dt) THEN (dt.m + 2) \div 3 ELSE NaN

\* const timeKey = ... in filteredPivotData
timeKey(bond, view) ==
    LET dt == ParseDMY(bond.dateOfInvestment)
    IN  CASE view = "Years" -> NumToString(getFullYear(dt))
          [] view = "Quarters" ->
                <<"Q">> \o NumToString(QuarterOf(dt)) \o <<" ">> \o NumToString(getFullYear(dt))
          [] OTHER -> bond.monthYear

\* const bondKey = `${bond.bondName}|${bond.isin}`
bondKey(bond) == bond.bondName \o <<"|">> \o bond.isin

\* A forEach body that assigns the amount instead of adding it.
PivotOverwrite(pivot, issuer, key, period, amount) ==
    LET p1 == IF HasKey(pivot, issuer) THEN pivot ELSE Put(pivot, issuer, EmptyObject)
        b1 == IF HasKey(p1[issuer], key) THEN p1[issuer] ELSE Put(p1[issuer], key, EmptyObject)
    IN  Put(p1, issuer, Put(b1, key, Put(b1[key], period, amount)))

\* One round of the forEach body: create the missing levels, reset a falsy
\* cell to 0, then += amount.
PivotAccumulate(pivot, issuer, key, period, amount) ==
    LET p1   == IF HasKey(pivot, issuer) THEN pivot ELSE Put(pivot, issuer, EmptyObject)
        b1   == IF HasKey(p1[issuer], key) THEN p1[issuer] ELSE Put(p1[issuer], key, EmptyObject)
        cell == IF HasKey(b1[key], period) /\ b1[key][period] # 0 /\ b1[key][period] # NaN
                THEN b1[key][period] ELSE 0
    IN  Put(p1, issuer, Put(b1, key, Put(b1[key], period, Add(cell, amount))))

\* filteredPivotData of the composite-key view (bondName|isin)
RECURSIVE filteredPivotData(_, _)
filteredPivotData(fd, view) ==
    IF fd = <<>> THEN EmptyObject
    ELSE LET bond == fd[Len(fd)]
         IN  PivotAccumulate(filteredPivotData(SubSeq(fd, 1, Len(fd) - 1), view),
                             bond.bondIssuer, bondKey(bond), timeKey(bond, view),
                             bond.investedAmount)

\* filteredPivotData of the earlier view, keyed by bondName alone
RECURSIVE filteredPivotDataByName(_, _)
filteredPivotDataByName(fd, view) ==
    IF fd = <<>> THEN EmptyObject
    ELSE LET bond == fd[Len(fd)]
         IN  PivotAccumulate(filteredPivotDataByName(SubSeq(fd, 1, Len(fd) - 1), view),
                             bond.bondIssuer, bond.bondName, timeKey(bond, view),
                             bond.investedAmount)

\* Sum of the values of an object, as Object.values(...).forEach adds them
RECURSIVE SumValues(_)
SumValues(obj) ==
    IF DOMAIN obj = {} THEN 0
    ELSE LET k == CHOOSE x \in DOMAIN obj : TRUE
         IN  Add(obj[k], SumValues([x \in DOMAIN obj \ {k} |-> obj[x]]))

\* Totals that stop after the first series of an issuer.
issuerTotalsFirstSeries(pivot) ==
    [issuer \in DOMAIN pivot |->
        SumValues(pivot[issuer][CHOOSE key \in DOMAIN pivot[issuer] : TRUE])]

issuerTotals(pivot) ==
    [issuer \in DOMAIN pivot |->
        SumValues([key \in DOMAIN pivot[issuer] |-> SumValues(pivot[issuer][key])])]

XirrOf(data) == [i \in 1..Len(data) |-> data[i].xirr]

\* avgXirr: guarded mean over the filtered (active) bonds
avgXirr(fd) == IF Len(fd) = 0 THEN Zero ELSE Quot(SumSeq(XirrOf(fd)), Len(fd))

\* overallAvgXirr: guarded mean over all bonds
overallAvgXirr(data) == IF Len(data) = 0 THEN Zero ELSE Quot(SumSeq(XirrOf(data)), Len(data))

\* BondTable, summary "Avg XIRR": reduce(...) / bondData.length
BondTableAvgXirr(data) == Quot(SumSeq(XirrOf(data)), Len(data))

\* The keys of the third level of a pivot: periods.add(period) over all of it
Periods(pivot) ==
    UNION {UNION {DOMAIN pivot[issuer][key] : key \in DOMAIN pivot[issuer]} :
             issuer \in DOMAIN pivot}

\* new Date(text) for a column label of the Months view, "Jan 2024": the
\* first day of that month; any other text gives an invalid Date.
NewDateMonthYearText(t) ==
    IF \E m \in 1..12 : Len(t) = 8 /\ SubSeq(t, 1, 4) = MonthShort[m] \o <<" ">>
                        /\ IsDigitString(SubSeq(t, 5, 8))
    THEN [y |-> DigitsToNat(SubSeq(t, 5, 8)),
          m |-> CHOOSE m \in 1..12 : SubSeq(t, 1, 3) = MonthShort[m],
          d |-> 1]
    ELSE InvalidDate

\* q.replace('Q', '')
ReplaceFirstQ(q) ==
    IF \E i \in 1..Len(q) : q[i] = "Q"
    THEN LET i == CHOOSE k \in 1..Len(q) : q[k] = "Q" /\ \A j \in 1..(k - 1) : q[j] # "Q"
         IN  SubSeq(q, 1, i - 1) \o SubSeq(q, i + 1, Len(q))
    ELSE q

\* parseQuarter: parseInt(year) * 4 + quarterNum
parseQuarter(quarter) ==
    LET parts      == split(quarter, " ")
        quarterNum == parseInt(ReplaceFirstQ(parts[1]))
        year       == IF Len(parts) >= 2 THEN parseInt(parts[2]) ELSE NaN
    IN  IF year = NaN THEN NaN ELSE Add(year * 4, quarterNum)

\* The number the sort comparator of allTimePeriods subtracts for a period
PeriodSortKey(period, view) ==
    CASE view = "Years" -> parseInt(period)
      [] view = "Quarters" -> parseQuarter(period)
      [] OTHER -> getTime(NewDateMonthYearText(period))

\* Array.from(periods).sort(comparator): ascending by the comparator's
\* number; where the comparator gives NaN (a period of an unparseable date)
\* the place of that period is the engine's, the same for the same list.
allTimePeriods(pivot, view) ==
    LET periods == Periods(pivot)
        n       == Cardinality(periods)
    IN  CHOOSE order \in [1..n -> periods] :
            /\ \A i, j \in 1..n : order[i] = order[j] => i = j
            /\ \A i, j \in 1..n :
                  i < j => ~JsLt(PeriodSortKey(order[j], view), PeriodSortKey(order[i], view))

\* avgInvestment: totalInvestment / allTimePeriods.length
avgInvestment(totals, periods) == Quot(SumValues(totals), Len(periods))

\* A useMemo cell before the first render of BondAnalysisView
NoCell == [mounted |-> FALSE, deps |-> <<>>, value |-> <<>>]
NoMemo == [filteredData |-> NoCell, filteredPivotData |-> NoCell,
           allTimePeriods |-> NoCell, issuerTotals |-> NoCell]

\* Whether a render calls the factory again: the first render, or some
\* dependency differs from the one of the cell.  Dependencies are compared
\* by value here; React compares them by identity, so it calls the factory
\* at least as often.
Recomputes(cell, deps) == ~cell.mounted \/ cell.deps # deps
Cell(deps, value) == [mounted |-> TRUE, deps |-> deps, value |-> value]

\* useMemo of filteredData, with [bondData, durationFilter]
UseFilteredData(cell, data, filter, today) ==
    IF Recomputes(cell, <<data, filter>>)
    THEN Cell(<<data, filter>>, filteredData(data, filter, today)) ELSE cell
\* A filteredPivotData cell that does not depend on durationView.
UseFilteredPivotDataNoView(cell, fd, view) ==
    IF Recomputes(cell, <<fd>>)
    THEN Cell(<<fd>>, filteredPivotData(fd, view)) ELSE cell
\* useMemo of filteredPivotData, with [filteredData, durationView]
UseFilteredPivotData(cell, fd, view) ==
    IF Recomputes(cell, <<fd, view>>)
    THEN Cell(<<fd, view>>, filteredPivotData(fd, view)) ELSE cell
\* useMemo of allTimePeriods, with [filteredPivotData, durationView]
UseAllTimePeriods(cell, pivot, view) ==
    IF Recomputes(cell, <<pivot, view>>)
    THEN Cell(<<pivot, view>>, allTimePeriods(pivot, view)) ELSE cell
\* useMemo of issuerTotals, with [filteredPivotData]
UseIssuerTotals(cell, pivot) ==
    IF Recomputes(cell, <<pivot>>) THEN Cell(<<pivot>>, issuerTotals(pivot)) ELSE cell

\* The cells that depend on the filteredPivotData cell
RenderTotals(m, fd, fp, view) ==
    [filteredData      |-> fd,
     filteredPivotData |-> fp,
     allTimePeriods    |-> UseAllTimePeriods(m.allTimePeriods, fp.value, view),
     issuerTotals      |-> UseIssuerTotals(m.issuerTotals, fp.value)]
\* The cells that depend on the filteredData cell
RenderPivot(m, fd, view) ==
    RenderTotals(m, fd, UseFilteredPivotData(m.filteredPivotData, fd.value, view), view)
\* One render of BondAnalysisView: the useMemo calls in their order
Render(m, data, filter, view, today) ==
    RenderPivot(m, UseFilteredData(m.filteredData, data, filter, today), view)

(***************************************************************************)
(* Inputs of the aggregation: investment rows and days of "now"            *)
(***************************************************************************)

MaxBonds == 3

Today2024 == [y |-> 2024, m |-> 6, d |-> 15]
Today2025 == [y |-> 2025, m |-> 1, d |-> 2]
NowSet == {Today2024, Today2025}

NameA1 == <<"A", "-", "1">>
NameA2 == <<"A", "-", "2">>
NameB7 == <<"B", " ", "7">>
Isin1 == <<"I", "1">>
Isin2 == <<"I", "2">>
Isin3 == <<"I", "3">>
Monthly == <<"M", "o", "n", "t", "h", "l", "y">>
Annually == <<"A", "n", "n", "u", "a", "l", "l", "y">>

Date_01_01_2023 == <<"0","1","/","0","1","/","2","0","2","3">>
Date_01_06_2023 == <<"0","1","/","0","6","/","2","0","2","3">>
Date_10_02_2024 == <<"1","0","/","0","2","/","2","0","2","4">>
Date_05_03_2023 == <<"0","5","/","0","3","/","2","0","2","3">>
Date_01_01_2024 == <<"0","1","/","0","1","/","2","0","2","4">>
Date_01_09_2024 == <<"0","1","/","0","9","/","2","0","2","4">>
Date_01_01_2030 == <<"0","1","/","0","1","/","2","0","3","0">>
NoDate == <<"N", "A">>

\* The rows an investment sheet may hold: two tranches of series A-1, a
\* second series of issuer A, a bond that matures between the two days of
\* "now", one that matured before both, and one without a readable date.
BondRows(today) ==
    { MakeBond(NameA1, Isin1, 10, 100, Date_01_01_2023, Date_01_01_2030, 10, Monthly, today),
      MakeBond(NameA1, Isin1, 5, 50, Date_01_06_2023, Date_01_01_2030, 11, Monthly, today),
      MakeBond(NameA2, Isin2, 7, 70, Date_10_02_2024, Date_01_09_2024, 12, Annually, today),
      MakeBond(NameB7, Isin3, 3, 30, Date_05_03_2023, Date_01_01_2024, 9, Monthly, today),
      MakeBond(NameB7, Isin3, 4, 40, NoDate, NoDate, 8, Annually, today) }

SeqsUpTo(S, n) == UNION {[1..k -> S] : k \in 0..n}

NoSelection == <<>>

(***************************************************************************)
(* SpecPivot: BondAnalysisView over every bounded list of investment rows  *)
(***************************************************************************)

InitPivot ==
    /\ now \in NowSet
    /\ bondData \in SeqsUpTo(BondRows(now), MaxBonds)
    /\ repaymentData = <<>>
    /\ pivotData = EmptyObject
    /\ isUploading = FALSE
    /\ hasData = TRUE
    /\ toasts = <<>>
    /\ uploads = <<>>
    /\ durationFilter = "All Time"
    /\ durationView = "Months"
    /\ selectedBond = NoSelection
    /\ sheet = <<>>
    /\ parsed = <<>>
    /\ memo = Render(NoMemo, bondData, durationFilter, durationView, now)

\* onClick={() => setDurationFilter(filter)}
SetDurationFilter(filter) ==
    /\ hasData
    /\ durationFilter' = filter
    /\ memo' = Render(memo, bondData, filter, durationView, now)
    /\ UNCHANGED <<bondData, repaymentData, pivotData, isUploading, hasData, toasts,
                   uploads, durationView, selectedBond, now, sheet, parsed>>

\* onClick={() => setDurationView(view)}
SetDurationView(view) ==
    /\ hasData
    /\ durationView' = view
    /\ memo' = Render(memo, bondData, durationFilter, view, now)
    /\ UNCHANGED <<bondData, repaymentData, pivotData, isUploading, hasData, toasts,
                   uploads, durationFilter, selectedBond, now, sheet, parsed>>

NextPivot ==
    \/ \E filter \in DurationFilters : SetDurationFilter(filter)
    \/ \E view \in DurationViews : SetDurationView(view)

SpecPivot == InitPivot /\ [][NextPivot]_vars

\* What the view renders in the current state
FilteredNow == filteredData(bondData, durationFilter, now)
PivotNow == filteredPivotData(FilteredNow, durationView)
PivotByNameNow == filteredPivotDataByName(FilteredNow, durationView)

(***************************************************************************)
(* Properties of the pivot, the filter and the averages (SpecPivot)        *)
(***************************************************************************)

\* Sum of f[i] over the indices i in S
RECURSIVE SumOver(_, _)
SumOver(S, f) == IF S = {} THEN 0
                 ELSE LET i == CHOOSE x \in S : TRUE IN f[i] + SumOver(S \ {i}, f)

RowOrders(n) == {p \in [1..n -> 1..n] : \A i, j \in 1..n : p[i] = p[j] => i = j}
Permute(xs, p) == [i \in 1..Len(xs) |-> xs[p[i]]]

\* The rows of fd that belong to one cell of the pivot
SeriesKey(bond, keyed) == IF keyed = "bondName|isin" THEN bondKey(bond) ELSE bond.bondName
Contributors(fd, keyed, issuer, key, period) ==
    {i \in 1..Len(fd) : /\ fd[i].bondIssuer = issuer
                        /\ SeriesKey(fd[i], keyed) = key
                        /\ timeKey(fd[i], durationView) = period}

PivotSums(pivot, fd, keyed) ==
    /\ \A i \in 1..Len(fd) :
          /\ fd[i].bondIssuer \in DOMAIN pivot
          /\ SeriesKey(fd[i], keyed) \in DOMAIN pivot[fd[i].bondIssuer]
          /\ timeKey(fd[i], durationView) \in DOMAIN pivot[fd[i].bondIssuer][SeriesKey(fd[i], keyed)]
    /\ \A issuer \in DOMAIN pivot :
          /\ DOMAIN pivot[issuer] # {}
          /\ \A key \in DOMAIN pivot[issuer] :
                /\ DOMAIN pivot[issuer][key] # {}
                /\ \A period \in DOMAIN pivot[issuer][key] :
                      LET rows == Contributors(fd, keyed, issuer, key, period)
                      IN  /\ rows # {}
                          /\ pivot[issuer][key][period] =
                                SumOver(rows, [i \in 1..Len(fd) |-> fd[i].investedAmount])

YearMatches(bond) ==
    LET year == getFullYear(ParseDMY(bond.dateOfInvestment))
    IN  \/ durationFilter = "All Time"
        \/ durationFilter = "This Year" /\ year = now.y
        \/ durationFilter = "Last Year" /\ year = now.y - 1
ActiveIndices == {i \in 1..Len(bondData) : ~bondData[i].matured /\ YearMatches(bondData[i])}
Occurrences(xs, x) == Cardinality({i \in 1..Len(xs) : xs[i] = x})

IsMeanOf(q, data) ==
    IF Len(data) = 0 THEN q = Zero
    ELSE IsFinite(q) /\ q.n = SumOver(1..Len(data), XirrOf(data)) /\ q.d = Len(data)

NoFigure == <<>>
Figure(x) == <<x>>

PrincipalRepaidOf(reps) == [i \in 1..Len(reps) |-> reps[i].principalRepaid]
InvestedOf(data) == [i \in 1..Len(data) |-> data[i].investedAmount]

\* const [bondName, isin] = bondKey.split('|'); a missing part is undefined,
\* which equals no string.
Undefined == <<"undefined", "value">>
KeyPart(key, n) == LET parts == split(key, "|") IN IF Len(parts) >= n THEN parts[n] ELSE Undefined

\* repaymentData.filter(r => r.bondName === bondName && r.isin === isin)
RepaymentsOf(reps, bondName, isin) ==
    SelectSeq(reps, LAMBDA r : r.bondName = bondName /\ r.isin = isin)

\* filteredData.filter(bond => bondName, isin and issuer all equal)
SeriesInvestments(fd, bondName, isin, issuer) ==
    SelectSeq(fd, LAMBDA bond : bond.bondName = bondName /\ bond.isin = isin
                                /\ bond.bondIssuer = issuer)

\* Series row, "Principal Remaining" cell
SeriesPrincipalRemaining(fd, reps, key, issuer) ==
    LET bondName        == KeyPart(key, 1)
        isin            == KeyPart(key, 2)
        bondInvestments == SeriesInvestments(fd, bondName, isin, issuer)
        totalInvestment == SumSeq(InvestedOf(bondInvestments))
        principalRepaid == SumSeq(PrincipalRepaidOf(RepaymentsOf(reps, bondName, isin)))
    IN  IF Len(bondInvestments) = 0 THEN NoFigure
        ELSE Figure(MathMax(0, Add(totalInvestment, 0 - principalRepaid)))

\* The Map bondSeries of an issuer row or of the total row: one entry per
\* bondKey, its repayments those of the first bond seen with that key.
BondSeriesMap(bonds, reps) ==
    [key \in {bondKey(bonds[i]) : i \in 1..Len(bonds)} |->
        LET first == bonds[CHOOSE i \in 1..Len(bonds) :
                              /\ bondKey(bonds[i]) = key
                              /\ \A j \in 1..(i - 1) : bondKey(bonds[j]) # key]
        IN  [totalInvestment |->
                SumSeq(InvestedOf(SelectSeq(bonds, LAMBDA b : bondKey(b) = key))),
             repayments |-> RepaymentsOf(reps, first.bondName, first.isin)]]

\* totalRemaining += Math.max(0, totalInvestment - principalRepaid) over the Map
TotalRemaining(series) ==
    SumValues([key \in DOMAIN series |->
        MathMax(0, Add(series[key].totalInvestment,
                       0 - SumSeq(PrincipalRepaidOf(series[key].repayments))))])

\* Issuer row, "Principal Remaining" cell
IssuerPrincipalRemaining(fd, reps, issuer) ==
    TotalRemaining(BondSeriesMap(SelectSeq(fd, LAMBDA bond : bond.bondIssuer = issuer), reps))

\* Total row, "Principal Remaining" cell
TotalPrincipalRemaining(fd, reps) == TotalRemaining(BondSeriesMap(fd, reps))

InterestPaidOf(reps) == [i \in 1..Len(reps) |-> reps[i].interestPaidAfterTDS]

\* Series row, "Interest Paid" cell
SeriesInterestPaid(fd, reps, key, issuer) ==
    LET bondName == KeyPart(key, 1)
        isin     == KeyPart(key, 2)
    IN  IF Len(SeriesInvestments(fd, bondName, isin, issuer)) = 0 THEN NoFigure
        ELSE Figure(SumSeq(InterestPaidOf(RepaymentsOf(reps, bondName, isin))))

\* totalInterestPaid += repayments.reduce(...) over the Map
TotalInterestPaid(series) ==
    SumValues([key \in DOMAIN series |-> SumSeq(InterestPaidOf(series[key].repayments))])

\* Issuer row, "Interest Paid" cell
IssuerInterestPaid(fd, reps, issuer) ==
    TotalInterestPaid(BondSeriesMap(SelectSeq(fd, LAMBDA bond : bond.bondIssuer = issuer), reps))

\* Total row, "Interest Paid" cell
TotalRowInterestPaid(fd, reps) == TotalInterestPaid(BondSeriesMap(fd, reps))

\* handleBondClick: the selection setSelectedBond stores
ClickedSelection(fd, key, issuer) ==
    LET bondName == KeyPart(key, 1)
        isin     == KeyPart(key, 2)
        matches  == SeriesInvestments(fd, bondName, isin, issuer)
    IN  [bondData |-> IF Len(matches) > 0 THEN <<matches[1]>> ELSE <<>>,
         bondName |-> bondName,
         issuer   |-> issuer]

\* BondDetailsModal: bondData?.isin
ModalIsin(sel) == IF sel.bondData = <<>> THEN Undefined ELSE sel.bondData[1].isin
\* BondDetailsModal.bondRepaymentData
ModalRepayments(sel, reps) == RepaymentsOf(reps, sel.bondName, ModalIsin(sel))
\* BondDetailsModal.totalInvestment over allInvestmentEntries
ModalTotalInvestment(sel, allBondData) ==
    SumSeq(InvestedOf(SelectSeq(allBondData,
        LAMBDA bond : bond.bondName = sel.bondName /\ bond.isin = ModalIsin(sel))))
\* BondDetailsModal.principalRemaining
ModalPrincipalRemaining(sel, reps, allBondData) ==
    Add(ModalTotalInvestment(sel, allBondData),
        0 - SumSeq(PrincipalRepaidOf(ModalRepayments(sel, reps))))

\* The instant the sort comparator of generateRepaymentSchedule builds from
\* a date text: new Date(parseInt(year), parseInt(month) - 1, parseInt(day))
ScheduleSortTime(date) ==
    LET parts == split(date, "/")
    IN  IF Len(parts) < 3 THEN NaN
        ELSE getTime(NewDateYMD(parseInt(parts[3]), Add(parseInt(parts[2]), -1),
                                parseInt(parts[1])))

\* bondRepaymentData.map(entry => ({...})): the entries before the sort
ScheduleEntryOf(entry) ==
    [date             |-> entry.date,
     principalPayment |-> entry.principalRepaid,
     interestPayment  |-> entry.interestPaidBeforeTDS,
     principalBalance |-> 0,
     totalPayment     |-> Add(entry.principalRepaid, entry.interestPaidBeforeTDS),
     status           |-> "Paid"]

\* .sort((a, b) => dateA.getTime() - dateB.getTime()); the sort is stable:
\* an entry goes before the first entry the comparator places strictly
\* after it
RECURSIVE SortByDate(_)
SortByDate(entries) ==
    IF entries = <<>> THEN <<>>
    ELSE LET sorted == SortByDate(SubSeq(entries, 1, Len(entries) - 1))
             e      == entries[Len(entries)]
             later  == {i \in 1..Len(sorted) :
                          JsLt(ScheduleSortTime(e.date), ScheduleSortTime(sorted[i].date))}
             at     == IF later = {} THEN Len(sorted) + 1
                       ELSE CHOOSE i \in later : \A j \in later : i <= j
         IN  SubSeq(sorted, 1, at - 1) \o <<e>> \o SubSeq(sorted, at, Len(sorted))

\* .map((entry, index, array) => ({...entry, principalBalance: ...}))
WithPrincipalBalance(array, totalInvestment) ==
    [index \in 1..Len(array) |->
        LET cumulativePrincipalRepaid ==
                SumSeq([k \in 1..index |-> array[k].principalPayment])
        IN  [array[index] EXCEPT
                !.principalBalance =
                    MathMax(0, Add(totalInvestment, 0 - cumulativePrincipalRepaid))]]

\* BondDetailsModal.generateRepaymentSchedule
generateRepaymentSchedule(sel, reps, allBondData) ==
    IF sel.bondData = <<>> THEN <<>>
    ELSE LET bondRepaymentData == ModalRepayments(sel, reps)
         IN  WithPrincipalBalance(
                 SortByDate([i \in 1..Len(bondRepaymentData) |->
                                  ScheduleEntryOf(bondRepaymentData[i])]),
                 ModalTotalInvestment(sel, allBondData))

(***************************************************************************)
(* SpecRollup: the table and the modal over bounded investment and         *)
(* repayment lists                                                         *)
(***************************************************************************)

MaxRollupBonds == 2
MaxRepayments == 2

Date_05_02_2023 == <<"0","5","/","0","2","/","2","0","2","3">>
Date_05_04_2024 == <<"0","5","/","0","4","/","2","0","2","4">>

\* The RepaymentData literal of cleanAndParseRepaymentData.
MakeRepayment(date, bondName, isin, principalRepaid, interestBefore, interestAfter) ==
    [date                  |-> date,
     bondName              |-> bondName,
     isin                  |-> isin,
     principalRepaid       |-> principalRepaid,
     interestPaidBeforeTDS |-> interestBefore,
     interestPaidAfterTDS  |-> interestAfter]

\* Repayments of series A-1 (one of them above a single tranche) and of A-2.
RepaymentRows ==
    { MakeRepayment(Date_05_02_2023, NameA1, Isin1, 60, 10, 9),
      MakeRepayment(Date_05_03_2023, NameA1, Isin1, 100, 0, 0),
      MakeRepayment(Date_05_04_2024, NameA2, Isin2, 20, 5, 4) }

\* A bond name that holds the separator of the series key
NameC_D == <<"C", "|", "D">>

\* The investment rows, a later tranche of series A-1 bought in 2024, and
\* a bond whose name holds a '|'
RollupBondRows(today) ==
    BondRows(today) \cup
        { MakeBond(NameA1, Isin1, 2, 20, Date_10_02_2024, Date_01_01_2030, 10, Monthly, today),
          MakeBond(NameC_D, Isin3, 3, 30, Date_10_02_2024, Date_01_01_2030, 9, Annually, today) }

InitRollup ==
    /\ now = Today2024
    /\ bondData \in SeqsUpTo(RollupBondRows(now), MaxRollupBonds)
    /\ repaymentData \in SeqsUpTo(RepaymentRows, MaxRepayments)
    /\ pivotData = EmptyObject
    /\ isUploading = FALSE
    /\ hasData = TRUE
    /\ toasts = <<>>
    /\ uploads = <<>>
    /\ durationFilter = "All Time"
    /\ durationView = "Months"
    /\ selectedBond = NoSelection
    /\ sheet = <<>>
    /\ parsed = <<>>
    /\ memo = Render(NoMemo, bondData, durationFilter, durationView, now)

\* onClick={() => handleBondClick(bondKey, issuer)} on a series row
HandleBondClick(key, issuer) ==
    /\ issuer \in DOMAIN PivotNow
    /\ key \in DOMAIN PivotNow[issuer]
    /\ selectedBond' = <<ClickedSelection(FilteredNow, key, issuer)>>
    /\ UNCHANGED <<bondData, repaymentData, pivotData, isUploading, hasData, toasts,
                   uploads, durationFilter, durationView, now, sheet, parsed, memo>>

\* onClose={() => setSelectedBond(null)}
CloseModal ==
    /\ selectedBond # NoSelection
    /\ selectedBond' = NoSelection
    /\ UNCHANGED <<bondData, repaymentData, pivotData, isUploading, hasData, toasts,
                   uploads, durationFilter, durationView, now, sheet, parsed, memo>>

\* The details modal is a modal Dialog: the filter select behind its overlay
\* takes no input while the modal is open.
NextRollup ==
    \/ \E filter \in DurationFilters : selectedBond = NoSelection /\ SetDurationFilter(filter)
    \/ \E issuer \in DOMAIN PivotNow : \E key \in DOMAIN PivotNow[issuer] :
          HandleBondClick(key, issuer)
    \/ CloseModal

SpecRollup == InitRollup /\ [][NextRollup]_vars

\* The modal shows its figures only when it has a bond (if (!bondData) return null).
ModalShown == selectedBond # NoSelection /\ selectedBond[1].bondData # <<>>

\* C1: every principal-remaining figure (series row, issuer row, total row
\* of the table, and "Principal Remaining" of the details modal) is >= 0,
\* also when the repaid principal exceeds the invested total.
C1_RemainingPrincipalNeverNegative ==
    /\ \A issuer \in DOMAIN PivotNow :
          /\ IssuerPrincipalRemaining(FilteredNow, repaymentData, issuer) >= 0
          /\ \A key \in DOMAIN PivotNow[issuer] :
                LET cell == SeriesPrincipalRemaining(FilteredNow, repaymentData, key, issuer)
                IN  cell # NoFigure => cell[1] >= 0
    /\ TotalPrincipalRemaining(FilteredNow, repaymentData) >= 0
    /\ ModalShown =>
          ModalPrincipalRemaining(selectedBond[1], repaymentData, FilteredNow) >= 0

\* The number a cell adds to a sum of figures: '-' adds nothing
FigureValue(f) == IF f = NoFigure THEN 0 ELSE f[1]

\* The figures of the series rows under an issuer row, added up
SeriesRemainingSum(issuer) ==
    SumValues([key \in DOMAIN PivotNow[issuer] |->
        FigureValue(SeriesPrincipalRemaining(FilteredNow, repaymentData, key, issuer))])
SeriesInterestSum(issuer) ==
    SumValues([key \in DOMAIN PivotNow[issuer] |->
        FigureValue(SeriesInterestPaid(FilteredNow, repaymentData, key, issuer))])

\* C27: in the 'Principal Remaining' and the 'Interest Paid' column an
\* issuer row's figure equals the sum of the figures of the series rows
\* under that issuer, and the total row's figure equals the sum of the
\* issuer rows' figures, for every record set and duration filter.
C27_RollupLevelsAgree ==
    /\ \A issuer \in DOMAIN PivotNow :
          /\ IssuerPrincipalRemaining(FilteredNow, repaymentData, issuer) =
                SeriesRemainingSum(issuer)
          /\ IssuerInterestPaid(FilteredNow, repaymentData, issuer) = SeriesInterestSum(issuer)
    /\ TotalPrincipalRemaining(FilteredNow, repaymentData) =
          SumValues([issuer \in DOMAIN PivotNow |->
              IssuerPrincipalRemaining(FilteredNow, repaymentData, issuer)])
    /\ TotalRowInterestPaid(FilteredNow, repaymentData) =
          SumValues([issuer \in DOMAIN PivotNow |->
              IssuerInterestPaid(FilteredNow, repaymentData, issuer)])

\* C28: for every investment, splitting its key bondName|isin at '|' gives
\* back (bondName, isin); two investments with different (bondName, isin)
\* never share a key; a click on a series row opens the modal for an
\* investment of that series, and the rollups of the row and of the modal
\* use the repayments of that series.
C28_SeriesKeyRoundTrips ==
    /\ \A i \in 1..Len(FilteredNow) :
          LET bond == FilteredNow[i]
          IN  /\ KeyPart(bondKey(bond), 1) = bond.bondName
              /\ KeyPart(bondKey(bond), 2) = bond.isin
              /\ Len(split(bondKey(bond), "|")) = 2
              /\ LET sel == ClickedSelection(FilteredNow, bondKey(bond), bond.bondIssuer)
                 IN  /\ sel.bondData # <<>>
                     /\ sel.bondData[1].bondName = bond.bondName
                     /\ sel.bondData[1].isin = bond.isin
                     /\ ModalRepayments(sel, repaymentData) =
                           RepaymentsOf(repaymentData, bond.bondName, bond.isin)
              /\ SeriesPrincipalRemaining(FilteredNow, repaymentData, bondKey(bond),
                                          bond.bondIssuer) # NoFigure
    /\ \A i, j \in 1..Len(FilteredNow) :
          bondKey(FilteredNow[i]) = bondKey(FilteredNow[j]) =>
              /\ FilteredNow[i].bondName = FilteredNow[j].bondName
              /\ FilteredNow[i].isin = FilteredNow[j].isin
    /\ selectedBond # NoSelection =>
          /\ selectedBond[1].bondData # <<>>
          /\ selectedBond[1].bondData[1].bondName = selectedBond[1].bondName

\* The calendar day a day/month/year text names, as a number that grows
\* with the day
ParseDMYDay(date) ==
    LET parts == split(date, "/")
    IN  (DigitsToNat(parts[3]) * 12 + DigitsToNat(parts[2])) * 31 + DigitsToNat(parts[1])

\* The schedule the open modal shows
ScheduleNow == generateRepaymentSchedule(selectedBond[1], repaymentData, FilteredNow)

\* The repayments of the uploaded list that match the modal's bond on
\* bondName and isin
MatchingRepayments ==
    SelectSeq(repaymentData, LAMBDA r : /\ r.bondName = selectedBond[1].bondName
                                        /\ r.isin = selectedBond[1].bondData[1].isin)

\* The invested total of the series of the modal's bond: every uploaded
\* investment with its bondName and isin
SeriesTotalInvested ==
    SumSeq(InvestedOf(SelectSeq(bondData,
        LAMBDA bond : /\ bond.bondName = selectedBond[1].bondName
                      /\ bond.isin = selectedBond[1].bondData[1].isin)))

\* C21: the schedule of the details modal has exactly one entry per
\* repayment matching the bond on bondName and isin, in ascending order of
\* date, each with status 'Paid', and the principalBalance of entry i is
\* max(0, totalInvested - sum of principalPayment over entries 0..i).
C21_RepaymentSchedule ==
    ModalShown =>
        /\ Len(ScheduleNow) = Len(MatchingRepayments)
        /\ \E p \in RowOrders(Len(ScheduleNow)) :
              \A i \in 1..Len(ScheduleNow) :
                  /\ ScheduleNow[i].date = MatchingRepayments[p[i]].date
                  /\ ScheduleNow[i].principalPayment = MatchingRepayments[p[i]].principalRepaid
                  /\ ScheduleNow[i].interestPayment =
                        MatchingRepayments[p[i]].interestPaidBeforeTDS
        /\ \A i, j \in 1..Len(ScheduleNow) :
              i < j => ParseDMYDay(ScheduleNow[i].date) <= ParseDMYDay(ScheduleNow[j].date)
        /\ \A i \in 1..Len(ScheduleNow) :
              /\ ScheduleNow[i].status = "Paid"
              /\ LET paid == SumSeq([k \in 1..i |-> ScheduleNow[k].principalPayment])
                     left == SeriesTotalInvested - paid
                 IN  ScheduleNow[i].principalBalance = IF left > 0 THEN left ELSE 0

(***************************************************************************)
(* Time buckets, their order and the totals across views (SpecPivot)       *)
(***************************************************************************)

\* The investments shown whose date text is day/month/year in digits with
\* a month in 1..12, and the year and month that text names
HasCalendarDate(bond) ==
    LET parts == split(bond.dateOfInvestment, "/")
    IN  /\ Len(parts) = 3
        /\ \A i \in 1..3 : IsDigitString(parts[i])
        /\ DigitsToNat(parts[2]) \in 1..12
YearOfText(bond) == DigitsToNat(split(bond.dateOfInvestment, "/")[3])
MonthOfText(bond) == DigitsToNat(split(bond.dateOfInvestment, "/")[2])
CeilThird(m) == CHOOSE n \in 1..4 : 3 * n - 2 <= m /\ m <= 3 * n
DatedNow == {i \in 1..Len(FilteredNow) : HasCalendarDate(FilteredNow[i])}

\* The label 'Q<n> <year>' of an investment
QuarterLabel(bond) ==
    <<"Q">> \o NatToString(CeilThird(MonthOfText(bond))) \o <<" ">>
            \o NatToString(YearOfText(bond))

\* Whether the quarter of investment a is before the quarter of b
EarlierQuarter(a, b) ==
    \/ YearOfText(a) < YearOfText(b)
    \/ YearOfText(a) = YearOfText(b)
          /\ CeilThird(MonthOfText(a)) < CeilThird(MonthOfText(b))

AvgInvestmentNow ==
    avgInvestment(issuerTotals(PivotNow), allTimePeriods(PivotNow, durationView))

\* C24: with an empty filtered set (no time periods) the average investment
\* per period is a finite number, 0, not NaN or an infinity.
C24_AvgInvestmentGuarded ==
    Len(FilteredNow) = 0 => IsFinite(AvgInvestmentNow) /\ QuotEq(AvgInvestmentNow, Zero)

\* The issuer totals of the view, and those under another duration view
IssuerTotalsNow == issuerTotals(PivotNow)
IssuerTotalsIn(view) == issuerTotals(filteredPivotData(FilteredNow, view))

\* The invested amounts of the shown investments of an issuer
InvestedBy(issuer) ==
    InvestedOf(SelectSeq(FilteredNow, LAMBDA bond : bond.bondIssuer = issuer))

FormatDMY(dt) ==
    padStart2(NumToString(getDate(dt))) \o <<"/">>
        \o padStart2(NumToString(Add(getMonth(dt), 1))) \o <<"/">>
        \o NumToString(getFullYear(dt))

\* A start date that is the first day of the month of investment itself.
StartInvestmentMonth(investmentDate) ==
    NewDateYMD(getFullYear(investmentDate), getMonth(investmentDate), 1)

\* new Date(investmentDate.getFullYear(), investmentDate.getMonth() + 1, 1)
StartDate(investmentDate) ==
    NewDateYMD(getFullYear(investmentDate), Add(getMonth(investmentDate), 1), 1)

\* currentDate < maturityDate ? currentDate : maturityDate, as an instant
EndTime(today, maturityDate) ==
    IF JsLt(NowTime(today), getTime(maturityDate)) THEN NowTime(today)
    ELSE getTime(maturityDate)

\* while (currentMonth <= endDate) { push; currentMonth.setMonth(getMonth() + 1) }
RECURSIVE ExpectedMonths(_, _)
ExpectedMonths(currentMonth, endTime) ==
    IF JsLe(getTime(currentMonth), endTime)
    THEN <<currentMonth>> \o
         ExpectedMonths(NewDateYMD(getFullYear(currentMonth), getMonth(currentMonth) + 1,
                                   getDate(currentMonth)), endTime)
    ELSE <<>>

SameMonth(a, b) ==
    /\ IsValidDate(a) /\ IsValidDate(b)
    /\ getMonth(a) = getMonth(b) /\ getFullYear(a) = getFullYear(b)

\* BondAnalysisView.getMissedInterestMonths: the missed months as the
\* "DD/MM/YYYY" texts of the first day of each month
getMissedInterestMonths(bond, reps, today) ==
    IF bond.interestFrequency # Monthly THEN <<>>
    ELSE LET expected == ExpectedMonths(StartDate(ParseDMY(bond.dateOfInvestment)),
                                        EndTime(today, ParseDMY(bond.maturityDate)))
             expectedMonths == [i \in 1..Len(expected) |-> FormatDMY(expected[i])]
             bondRepayments ==
                 SelectSeq(reps, LAMBDA entry : /\ entry.bondName = bond.bondName
                                                /\ entry.isin = bond.isin
                                                /\ entry.interestPaidBeforeTDS > 0)
             actualPaymentMonths ==
                 [i \in 1..Len(bondRepayments) |-> FormatDMY(ParseDMY(bondRepayments[i].date))]
         IN  SelectSeq(expectedMonths,
                LAMBDA month :
                    LET monthDate == ParseDMY(month)
                        isCurrentMonth == /\ getMonth(monthDate) = today.m - 1
                                          /\ getFullYear(monthDate) = today.y
                    IN  /\ JsLt(getTime(monthDate), NowTime(today))
                        /\ ~isCurrentMonth
                        /\ ~\E i \in 1..Len(actualPaymentMonths) :
                               SameMonth(ParseDMY(actualPaymentMonths[i]), monthDate))

\* BondAnalysisView.hasMissedInterestPayments(bondKey, issuer)
hasMissedInterestPayments(fd, reps, key, issuer, today) ==
    LET matches == SeriesInvestments(fd, KeyPart(key, 1), KeyPart(key, 2), issuer)
    IN  IF Len(matches) > 0 THEN getMissedInterestMonths(matches[1], reps, today) ELSE <<>>

\* BondDetailsModal.getMissedInterestMonths, before the labels are made:
\* the Dates of missedMonths
ModalMissedMonths(sel, reps, today) ==
    IF sel.bondData = <<>> \/ sel.bondData[1].interestFrequency # Monthly THEN <<>>
    ELSE LET bond == sel.bondData[1]
             expectedMonths ==
                 ExpectedMonths(StartDate(ParseDMY(bond.dateOfInvestment)),
                                EndTime(today, ParseDMY(bond.maturityDate)))
             paid == SelectSeq(ModalRepayments(sel, reps),
                               LAMBDA entry : entry.interestPaidBeforeTDS > 0)
             actualPaymentMonths == [i \in 1..Len(paid) |-> ParseDMY(paid[i].date)]
         IN  SelectSeq(expectedMonths,
                LAMBDA expectedMonth :
                    /\ JsLt(getTime(expectedMonth), NowTime(today))
                    /\ ~\E i \in 1..Len(actualPaymentMonths) :
                           SameMonth(actualPaymentMonths[i], expectedMonth))

(***************************************************************************)
(* SpecMissed: one monthly or annual bond, its repayments, and time        *)
(* passing between the upload and the render                               *)
(***************************************************************************)

MaxMissedRepayments == 2

Date_15_12_2023 == <<"1","5","/","1","2","/","2","0","2","3">>
Date_5_2_2024 == <<"5","/","2","/","2","0","2","4">>
Date_01_04_2024 == <<"0","1","/","0","4","/","2","0","2","4">>
Date_20_05_2024 == <<"2","0","/","0","5","/","2","0","2","4">>
Date_05_05_2024 == <<"0","5","/","0","5","/","2","0","2","4">>
Date_5_6_2024 == <<"5","/","6","/","2","0","2","4">>

UploadDay == [y |-> 2024, m |-> 3, d |-> 10]
LaterDays == { [y |-> 2024, m |-> 4, d |-> 30], [y |-> 2024, m |-> 6, d |-> 1], Today2024 }

MissedInvestmentDates == {Date_01_01_2024, Date_15_12_2023, Date_5_2_2024}
MissedMaturityDates == {Date_01_04_2024, Date_20_05_2024, Date_01_01_2030, NoDate}

\* One bond of series A-1, parsed on the day of the upload.
MissedBondRows(today) ==
    { MakeBond(NameA1, Isin1, 10, 100, doi, mat, 10, freq, today) :
        doi \in MissedInvestmentDates, mat \in MissedMaturityDates,
        freq \in {Monthly, Annually} }

\* Interest paid in May and in June 2024, a repayment without interest in
\* April, and interest paid in May to another series.
MissedRepaymentRows ==
    { MakeRepayment(Date_05_05_2024, NameA1, Isin1, 0, 10, 9),
      MakeRepayment(Date_5_6_2024, NameA1, Isin1, 0, 10, 9),
      MakeRepayment(Date_05_04_2024, NameA1, Isin1, 20, 0, 0),
      MakeRepayment(Date_05_05_2024, NameA2, Isin2, 0, 10, 9) }

InitMissed ==
    /\ now = UploadDay
    /\ \E bond \in MissedBondRows(now) : bondData = <<bond>>
    /\ repaymentData \in SeqsUpTo(MissedRepaymentRows, MaxMissedRepayments)
    /\ pivotData = EmptyObject
    /\ isUploading = FALSE
    /\ hasData = TRUE
    /\ toasts = <<>>
    /\ uploads = <<>>
    /\ durationFilter = "All Time"
    /\ durationView = "Months"
    /\ selectedBond = NoSelection
    /\ sheet = <<>>
    /\ parsed = <<>>
    /\ memo = Render(NoMemo, bondData, durationFilter, durationView, now)

\* const currentDate = new Date(): a later render reads a later day
DayPasses(day) ==
    /\ NowTime(now) < NowTime(day)
    /\ now' = day
    /\ UNCHANGED <<bondData, repaymentData, pivotData, isUploading, hasData, toasts,
                   uploads, durationFilter, durationView, selectedBond, sheet, parsed, memo>>

NextMissed ==
    \/ \E day \in LaterDays : DayPasses(day)
    \/ \E issuer \in DOMAIN PivotNow : \E key \in DOMAIN PivotNow[issuer] :
          HandleBondClick(key, issuer)
    \/ CloseModal

SpecMissed == InitMissed /\ [][NextMissed]_vars

MonthIndex(dt) == dt.y * 12 + dt.m

\* The series rows on screen, as <<issuer, bondKey>>
SeriesRows == UNION {{<<issuer, key>> : key \in DOMAIN PivotNow[issuer]} : issuer \in DOMAIN PivotNow}

\* The missed months a series row reports, as Dates
RowMissedDates(row) ==
    LET months == hasMissedInterestPayments(FilteredNow, repaymentData, row[2], row[1], now)
    IN  [i \in 1..Len(months) |-> ParseDMY(months[i])]
\* The bond a series row reports on
RowBond(row) == SeriesInvestments(FilteredNow, KeyPart(row[2], 1), KeyPart(row[2], 2), row[1])[1]

\* Some repayment of the bond with interest before TDS > 0 in that month
InterestPaidIn(bond, month) ==
    \E i \in 1..Len(repaymentData) :
        /\ repaymentData[i].bondName = bond.bondName /\ repaymentData[i].isin = bond.isin
        /\ repaymentData[i].interestPaidBeforeTDS > 0
        /\ SameMonth(ParseDMY(repaymentData[i].date), month)

MissedOnlyPastUnpaid(bond, months) ==
    \A i \in 1..Len(months) :
        /\ IsValidDate(months[i])
        /\ MonthIndex(months[i]) < MonthIndex(now)
        /\ ~InterestPaidIn(bond, months[i])

\* C4: a month is reported as missed only if it lies strictly before the
\* calendar month of "now" and the bond has no repayment with
\* interestPaidBeforeTDS > 0 in that month, in the table's detector and in
\* the details modal's detector alike.
C4_CurrentMonthNeverFlagged ==
    /\ \A row \in SeriesRows : MissedOnlyPastUnpaid(RowBond(row), RowMissedDates(row))
    /\ ModalShown =>
          MissedOnlyPastUnpaid(selectedBond[1].bondData[1],
                               ModalMissedMonths(selectedBond[1], repaymentData, now))

\* The calendar months after the month of investment up to the month of
\* min(now, maturityDate), as month indices
ExpectedSpan(bond) ==
    LET inv == ParseDMY(bond.dateOfInvestment)
        mat == ParseDMY(bond.maturityDate)
        end == IF NowTime(now) < getTime(mat) THEN now ELSE mat
    IN  IF IsValidDate(inv) /\ IsValidDate(mat)
        THEN (MonthIndex(inv) + 1)..MonthIndex(end) ELSE {}

MissedWithinSpan(bond, months) ==
    /\ bond.interestFrequency # Monthly => months = <<>>
    /\ \A i \in 1..Len(months) : MonthIndex(months[i]) \in ExpectedSpan(bond)
    /\ \A i, j \in 1..Len(months) : months[i] = months[j] => i = j

ExpectedIsSpan(bond) ==
    LET expected == ExpectedMonths(StartDate(ParseDMY(bond.dateOfInvestment)),
                                   EndTime(now, ParseDMY(bond.maturityDate)))
    IN  /\ {MonthIndex(expected[i]) : i \in 1..Len(expected)} = ExpectedSpan(bond)
        /\ Len(expected) = Cardinality(ExpectedSpan(bond))

Blank == [t |-> "undefined", s |-> <<>>, n |-> 0]
Str(s) == [t |-> "string", s |-> s, n |-> 0]
Num(n) == [t |-> "number", s |-> <<>>, n |-> n]

\* the truth value of a cell (cell && ..., !cell)
Truthy(cell) ==
    \/ cell.t = "string" /\ cell.s # <<>>
    \/ cell.t = "number" /\ cell.n # 0 /\ cell.n # NaN
\* typeof cell === 'string'
IsString(cell) == cell.t = "string"

\* the index a columnMap field has when no header set it (undefined)
NoColumn == -1
\* row[index] with a JavaScript index; row[undefined] and an index past the
\* end of the row are undefined
CellAt(row, index) == IF index >= 0 /\ index < Len(row) THEN row[index + 1] ELSE Blank

\* cell?.toString() || '' : the text of a cell, empty for an absent one
CellText(cell) ==
    IF cell.t = "string" THEN cell.s
    ELSE IF cell.t = "number" THEN NumToString(cell.n) ELSE <<>>

\* .replace(/[^\d.-]/g, '')
StripNonNumeric(s) == SelectSeq(s, LAMBDA c : c \in Digits \cup {".", "-"})

\* parseFloat(s): leading blanks, an optional sign, digits, an optional
\* fraction; NaN when no digit is found.  Numbers of the model are whole: a
\* text with a non-zero fraction digit has no value here (no arm of the CASE
\* applies); exponents and "Infinity" cannot survive StripNonNumeric.
parseFloat(s) ==
    LET t    == trimStart(s)
        neg  == t # <<>> /\ Head(t) = "-"
        u    == IF t # <<>> /\ Head(t) \in {"-", "+"} THEN Tail(t) ELSE t
        ip   == DigitPrefix(u)
        rest == SubSeq(u, Len(ip) + 1, Len(u))
        fp   == IF rest # <<>> /\ Head(rest) = "." THEN DigitPrefix(Tail(rest)) ELSE <<>>
    IN  CASE ip = <<>> /\ fp = <<>> -> NaN
          [] (ip # <<>> \/ fp # <<>>) /\ (\A i \in 1..Len(fp) : fp[i] = "0") ->
                IF neg THEN 0 - DigitsToNat(ip) ELSE DigitsToNat(ip)

\* parseFloat(cell?.toString().replace(/[^\d.-]/g, '') || '0')
AmountOf(cell) ==
    LET text == StripNonNumeric(CellText(cell))
    IN  parseFloat(IF text = <<>> THEN <<"0">> ELSE text)
\* parseFloat(cell?.toString() || '0')
UnitsOf(cell) ==
    LET text == CellText(cell)
    IN  parseFloat(IF text = <<>> THEN <<"0">> ELSE text)

\* the least and the greatest of a set of (1-based) indices, -1 if empty
FirstOf(hits) == IF hits = {} THEN -1 ELSE CHOOSE i \in hits : \A j \in hits : i <= j
LastOf(hits) == IF hits = {} THEN -1 ELSE CHOOSE i \in hits : \A j \in hits : j <= i

(***************************************************************************)
(* BondAnalyzer.cleanAndParseData                                          *)
(***************************************************************************)

T_bond_name == <<"b","o","n","d"," ","n","a","m","e">>
T_isin == <<"i","s","i","n">>
T_no_of_units == <<"n","o","."," ","o","f"," ","u","n","i","t","s">>
T_units == <<"u","n","i","t","s">>
T_invested_amount == <<"i","n","v","e","s","t","e","d"," ","a","m","o","u","n","t">>
T_face_value == <<"f","a","c","e"," ","v","a","l","u","e">>
T_acquisition_cost == <<"a","c","q","u","i","s","i","t","i","o","n"," ","c","o","s","t">>
T_date_of_investment == <<"d","a","t","e"," ","o","f"," ","i","n","v","e","s","t","m","e","n","t">>
T_maturity_date == <<"m","a","t","u","r","i","t","y"," ","d","a","t","e">>
T_xirr == <<"x","i","r","r">>
T_frequency_of_interest == <<"f","r","e","q","u","e","n","c","y"," ","o","f"," ","i","n","t","e","r","e","s","t">>
T_frequency_of_principal == <<"f","r","e","q","u","e","n","c","y"," ","o","f"," ","p","r","i","n","c","i","p","a","l">>
T_total == <<"t","o","t","a","l">>

\* the header predicate of the investment sheet
IsInvestmentHeaderCell(cell) ==
    /\ Truthy(cell) /\ IsString(cell)
    /\ \/ includes(toLowerCase(cell.s), T_bond_name)
       \/ includes(toLowerCase(cell.s), T_isin)

\* the field the else-if chain of headers.forEach assigns for one header
InvestmentFieldOf(header) ==
    IF ~(Truthy(header) /\ IsString(header)) THEN "none"
    ELSE LET cleanHeader == trim(toLowerCase(header.s))
         IN  CASE includes(cleanHeader, T_bond_name) -> "bondName"
               [] OTHER -> CASE includes(cleanHeader, T_isin) -> "isin"
               [] OTHER -> CASE includes(cleanHeader, T_no_of_units) \/ includes(cleanHeader, T_units) -> "units"
               [] OTHER -> CASE includes(cleanHeader, T_invested_amount) -> "investedAmount"
               [] OTHER -> CASE includes(cleanHeader, T_face_value) -> "faceValue"
               [] OTHER -> CASE includes(cleanHeader, T_acquisition_cost) -> "acquisitionCost"
               [] OTHER -> CASE includes(cleanHeader, T_date_of_investment) -> "dateOfInvestment"
               [] OTHER -> CASE includes(cleanHeader, T_maturity_date) -> "maturityDate"
               [] OTHER -> CASE includes(cleanHeader, T_xirr) -> "xirr"
               [] OTHER -> CASE includes(cleanHeader, T_frequency_of_interest) -> "interestFrequency"
               [] OTHER -> CASE includes(cleanHeader, T_frequency_of_principal) -> "principalFrequency"
               [] OTHER -> "none"

InvestmentFields == {"bondName", "isin", "units", "investedAmount", "faceValue",
                     "acquisitionCost", "dateOfInvestment", "maturityDate", "xirr",
                     "interestFrequency", "principalFrequency"}
\* headers.forEach(...): each field gets the JavaScript index of the last
\* header the chain assigns to it
InvestmentColumnMap(headers) ==
    [field \in InvestmentFields |->
        LET k == LastOf({k \in 1..Len(headers) : InvestmentFieldOf(headers[k]) = field})
        IN  IF k = -1 THEN NoColumn ELSE k - 1]

\* the rows the loop passes over: empty rows, and rows whose first cell is
\* falsy, blank, or mentions a total or the header
SkipsInvestmentRow(row) ==
    \/ Len(row) = 0
    \/ LET firstCell == CellAt(row, 0)
       IN  \/ ~Truthy(firstCell)
           \/ /\ IsString(firstCell)
              /\ \/ includes(toLowerCase(firstCell.s), T_total)
                 \/ includes(toLowerCase(firstCell.s), T_bond_name)
                 \/ trim(firstCell.s) = <<>>

\* the rows that reach cleanedData.push
AcceptsInvestmentRow(row, columnMap) ==
    /\ ~SkipsInvestmentRow(row)
    /\ CellText(CellAt(row, columnMap.bondName)) # <<>>
    /\ ~JsLe(AmountOf(CellAt(row, columnMap.investedAmount)), 0)

\* the BondData record made of an accepted row
BondOfRow(row, columnMap, today) ==
    MakeBond(CellText(CellAt(row, columnMap.bondName)),
             CellText(CellAt(row, columnMap.isin)),
             UnitsOf(CellAt(row, columnMap.units)),
             AmountOf(CellAt(row, columnMap.investedAmount)),
             CellText(CellAt(row, columnMap.dateOfInvestment)),
             CellText(CellAt(row, columnMap.maturityDate)),
             AmountOf(CellAt(row, columnMap.xirr)),
             CellText(CellAt(row, columnMap.interestFrequency)),
             today)

RECURSIVE InvestmentRecords(_, _, _)
InvestmentRecords(rows, columnMap, today) ==
    IF rows = <<>> THEN <<>>
    ELSE (IF AcceptsInvestmentRow(Head(rows), columnMap)
          THEN <<BondOfRow(Head(rows), columnMap, today)>> ELSE <<>>)
         \o InvestmentRecords(Tail(rows), columnMap, today)

\* What a parser call gives: an exception, or the array it returns
Threw == [threw |-> TRUE, data |-> <<>>]
Returned(data) == [threw |-> FALSE, data |-> data]

\* "Find the header row": the first row with a cell the header predicate
\* accepts, as a 1-based index, -1 if there is none
InvestmentHeaderRowIndex(rawData) ==
    FirstOf({i \in 1..Len(rawData) :
               \E k \in 1..Len(rawData[i]) : IsInvestmentHeaderCell(rawData[i][k])})

cleanAndParseData(rawData, today) ==
    LET headerRowIndex == InvestmentHeaderRowIndex(rawData)
    IN  IF headerRowIndex = -1 THEN Threw
        ELSE Returned(InvestmentRecords(SubSeq(rawData, headerRowIndex + 1, Len(rawData)),
                                        InvestmentColumnMap(rawData[headerRowIndex]), today))

(***************************************************************************)
(* BondAnalyzer.cleanAndParseRepaymentData                                 *)
(***************************************************************************)

T_date == <<"d","a","t","e">>
T_name_of_bond == <<"n","a","m","e"," ","o","f"," ","b","o","n","d">>
T_maturity == <<"m","a","t","u","r","i","t","y">>
T_amount_in_bank == <<"a","m","o","u","n","t"," ","i","n"," ","b","a","n","k">>
T_principal_repaid == <<"p","r","i","n","c","i","p","a","l"," ","r","e","p","a","i","d">>
T_interest_before == <<"i","n","t","e","r","e","s","t"," ","p","a","i","d"," ","(","b","e","f","o","r","e"," ","t","d","s"," ","d","e","d","u","c","t","i","o","n",")">>
T_interest_after == <<"i","n","t","e","r","e","s","t"," ","p","a","i","d"," ","(","a","f","t","e","r"," ","t","d","s"," ","d","e","d","u","c","t","i","o","n",")">>
T_tds_deducted == <<"t","d","s"," ","d","e","d","u","c","t","e","d">>
T_grand == <<"g","r","a","n","d">>

\* the header predicate of the repayment sheet: one cell holding both texts
IsRepaymentHeaderCell(cell) ==
    /\ Truthy(cell) /\ IsString(cell)
    /\ includes(toLowerCase(cell.s), T_date)
    /\ includes(toLowerCase(cell.s), T_name_of_bond)

\* the field the else-if chain of headers.forEach assigns for one header
RepaymentFieldOf(header) ==
    IF ~(Truthy(header) /\ IsString(header)) THEN "none"
    ELSE LET cleanHeader == trim(toLowerCase(header.s))
         IN  CASE includes(cleanHeader, T_date) /\ ~includes(cleanHeader, T_maturity) -> "date"
               [] OTHER -> CASE includes(cleanHeader, T_name_of_bond) -> "bondName"
               [] OTHER -> CASE includes(cleanHeader, T_isin) -> "isin"
               [] OTHER -> CASE includes(cleanHeader, T_no_of_units) -> "units"
               [] OTHER -> CASE includes(cleanHeader, T_amount_in_bank) -> "amountInBank"
               [] OTHER -> CASE includes(cleanHeader, T_principal_repaid) -> "principalRepaid"
               [] OTHER -> CASE includes(cleanHeader, T_interest_before) -> "interestPaidBeforeTDS"
               [] OTHER -> CASE includes(cleanHeader, T_interest_after) -> "interestPaidAfterTDS"
               [] OTHER -> CASE includes(cleanHeader, T_tds_deducted) -> "tdsDeducted"
               [] OTHER -> "none"

RepaymentFields == {"date", "bondName", "isin", "units", "amountInBank", "principalRepaid",
                    "interestPaidBeforeTDS", "interestPaidAfterTDS", "tdsDeducted"}
RepaymentColumnMap(headers) ==
    [field \in RepaymentFields |->
        LET k == LastOf({k \in 1..Len(headers) : RepaymentFieldOf(headers[k]) = field})
        IN  IF k = -1 THEN NoColumn ELSE k - 1]

\* A date test without the anchors and the separators: any text with a digit.
MatchesAnyDigit(dateStr) == \E k \in 1..Len(dateStr) : dateStr[k] \in Digits

\* dateStr.match(/^\d{1,2}\/\d{1,2}\/\d{4}$/)
MatchesDMY(dateStr) ==
    LET parts == split(dateStr, "/")
    IN  /\ Len(parts) = 3
        /\ \A i \in 1..3 : \A k \in 1..Len(parts[i]) : parts[i][k] \in Digits
        /\ Len(parts[1]) \in 1..2 /\ Len(parts[2]) \in 1..2 /\ Len(parts[3]) = 4

SkipsRepaymentRow(row, columnMap) ==
    \/ Len(row) = 0
    \/ LET firstCell    == CellAt(row, 0)
           bondNameCell == CellAt(row, columnMap.bondName)
       IN  \/ ~Truthy(firstCell)
           \/ ~Truthy(bondNameCell)
           \/ /\ IsString(firstCell)
              /\ \/ includes(toLowerCase(firstCell.s), T_total)
                 \/ includes(toLowerCase(firstCell.s), T_date)
                 \/ includes(toLowerCase(firstCell.s), T_grand)
                 \/ trim(firstCell.s) = <<>>
           \/ /\ IsString(bondNameCell)
              /\ \/ includes(toLowerCase(bondNameCell.s), T_total)
                 \/ includes(toLowerCase(bondNameCell.s), T_name_of_bond)
                 \/ trim(bondNameCell.s) = <<>>

AcceptsRepaymentRow(row, columnMap) ==
    /\ ~SkipsRepaymentRow(row, columnMap)
    /\ MatchesDMY(CellText(CellAt(row, columnMap.date)))
    /\ CellText(CellAt(row, columnMap.bondName)) # <<>>

RepaymentOfRow(row, columnMap) ==
    MakeRepayment(CellText(CellAt(row, columnMap.date)),
                  CellText(CellAt(row, columnMap.bondName)),
                  CellText(CellAt(row, columnMap.isin)),
                  AmountOf(CellAt(row, columnMap.principalRepaid)),
                  AmountOf(CellAt(row, columnMap.interestPaidBeforeTDS)),
                  AmountOf(CellAt(row, columnMap.interestPaidAfterTDS)))

RECURSIVE RepaymentRecords(_, _)
RepaymentRecords(rows, columnMap) ==
    IF rows = <<>> THEN <<>>
    ELSE (IF AcceptsRepaymentRow(Head(rows), columnMap)
          THEN <<RepaymentOfRow(Head(rows), columnMap)>> ELSE <<>>)
         \o RepaymentRecords(Tail(rows), columnMap)

\* "Find the header row": the first row with a cell the header predicate
\* accepts, as a 1-based index, -1 if there is none
RepaymentHeaderRowIndex(rawData) ==
    FirstOf({i \in 1..Len(rawData) :
               \E k \in 1..Len(rawData[i]) : IsRepaymentHeaderCell(rawData[i][k])})

\* A repayment parser that raises an exception when it finds no header row.
RepaymentParserThrowing(rawData) ==
    LET headerRowIndex == RepaymentHeaderRowIndex(rawData)
    IN  IF headerRowIndex = -1 THEN Threw
        ELSE Returned(RepaymentRecords(SubSeq(rawData, headerRowIndex + 1, Len(rawData)),
                                       RepaymentColumnMap(rawData[headerRowIndex])))

cleanAndParseRepaymentData(rawData) ==
    LET headerRowIndex == RepaymentHeaderRowIndex(rawData)
    IN  IF headerRowIndex = -1 THEN Returned(<<>>)
        ELSE Returned(RepaymentRecords(SubSeq(rawData, headerRowIndex + 1, Len(rawData)),
                                       RepaymentColumnMap(rawData[headerRowIndex])))

(***************************************************************************)
(* SpecParse: the two parsers applied to bounded worksheets                *)
(***************************************************************************)

MaxRows == 2

H_BondName == <<"B","o","n","d"," ","N","a","m","e">>
H_ISIN == <<"I","S","I","N">>
H_InvestedAmount == <<"I","n","v","e","s","t","e","d"," ","A","m","o","u","n","t">>
H_DateOfInvestment == <<"D","a","t","e"," ","o","f"," ","I","n","v","e","s","t","m","e","n","t">>
H_MaturityDate == <<"M","a","t","u","r","i","t","y"," ","D","a","t","e">>
H_XIRR == <<"X","I","R","R">>
H_FrequencyOfInterest == <<"F","r","e","q","u","e","n","c","y"," ","o","f"," ","I","n","t","e","r","e","s","t">>
H_NoOfUnits == <<"N","o","."," ","o","f"," ","U","n","i","t","s">>
H_Date == <<"D","a","t","e">>
H_NameOfBond == <<"N","a","m","e"," ","o","f"," ","B","o","n","d">>
H_NameOfBondMaturityDate == <<"N","a","m","e"," ","o","f"," ","B","o","n","d"," ","(","M","a","t","u","r","i","t","y"," ","D","a","t","e",")">>
H_PrincipalRepaid == <<"P","r","i","n","c","i","p","a","l"," ","R","e","p","a","i","d">>
H_InterestBefore == <<"I","n","t","e","r","e","s","t"," ","P","a","i","d"," ","(","B","e","f","o","r","e"," ","T","D","S"," ","D","e","d","u","c","t","i","o","n",")">>
H_InterestAfter == <<"I","n","t","e","r","e","s","t"," ","P","a","i","d"," ","(","A","f","t","e","r"," ","T","D","S"," ","D","e","d","u","c","t","i","o","n",")">>
V_Total == <<"T","o","t","a","l">>
V_Portfolio == <<"P","o","r","t","f","o","l","i","o">>
V_1000 == <<"1",",","0","0","0">>
V_Dash == <<"-">>
V_NA == <<"N",".","A",".">>

InvestmentHeaderRow ==
    <<Str(H_BondName), Str(H_ISIN), Str(H_InvestedAmount), Str(H_DateOfInvestment),
      Str(H_MaturityDate), Str(H_XIRR), Str(H_FrequencyOfInterest), Str(H_NoOfUnits)>>

\* a data row under InvestmentHeaderRow
InvestmentRow(nameCell, amountCell) ==
    <<nameCell, Str(Isin1), amountCell, Str(Date_01_01_2024), Str(Date_01_01_2030),
      Num(10), Str(Monthly), Num(5)>>

\* a layout with a second column whose header contains 'invested amount'
H_InvestedAmountNet == <<"I","n","v","e","s","t","e","d"," ","A","m","o","u","n","t"," ","(","N","e","t",")">>
InvestmentHeaderRowNet == InvestmentHeaderRow \o <<Str(H_InvestedAmountNet)>>
InvestmentRowNet == InvestmentRow(Str(NameA1), Num(100)) \o <<Num(90)>>

\* amount cells: numbers, an absent cell, "1,000", "-" and "N.A."
AmountCells == {Num(100), Num(0), Num(0 - 20), Blank, Str(V_1000), Str(V_Dash), Str(V_NA)}

\* data rows whose XIRR cell is "-", whose investment date is "NA", and
\* whose investment date cell is absent
InvestmentRowXirrDash ==
    <<Str(NameA1), Str(Isin1), Num(100), Str(Date_01_01_2024), Str(Date_01_01_2030),
      Str(V_Dash), Str(Monthly), Num(5)>>
InvestmentRowDateNA ==
    <<Str(NameA1), Str(Isin1), Num(100), Str(NoDate), Str(Date_01_01_2030),
      Num(10), Str(Monthly), Num(5)>>
InvestmentRowNoDate ==
    <<Str(NameA1), Str(Isin1), Num(100), Blank, Str(Date_01_01_2030),
      Num(10), Str(Monthly), Num(5)>>

InvestmentRows ==
    {InvestmentRow(Str(NameA1), amount) : amount \in AmountCells}
        \cup {InvestmentRow(Str(V_Total), Num(100)), InvestmentRow(Blank, Num(100)), <<>>}
        \cup {InvestmentRowXirrDash, InvestmentRowDateNA, InvestmentRowNoDate}

\* a repayment header the header predicate accepts, and the usual one with
\* "Date" and "Name of Bond" in separate cells
RepaymentHeaderRow ==
    <<Str(H_Date), Str(H_NameOfBondMaturityDate), Str(H_ISIN), Str(H_PrincipalRepaid),
      Str(H_InterestBefore), Str(H_InterestAfter)>>
RepaymentHeaderRowSeparate ==
    <<Str(H_Date), Str(H_NameOfBond), Str(H_ISIN), Str(H_PrincipalRepaid),
      Str(H_InterestBefore), Str(H_InterestAfter)>>
RepaymentRow(dateCell, principalCell) ==
    <<dateCell, Str(NameA1), Str(Isin1), principalCell, Num(10), Num(9)>>
\* date cells: day/month/year texts, an ISO date, a two-digit year, a text
\* with a blank after the year, a five-digit year and a spreadsheet day number
V_5_1_2024 == <<"5","/","1","/","2","0","2","4">>
V_2024_01_05 == <<"2","0","2","4","-","0","1","-","0","5">>
V_5_1_24 == <<"5","/","1","/","2","4">>
V_5_1_2024_Blank == <<"5","/","1","/","2","0","2","4"," ">>
V_05_01_20245 == <<"0","5","/","0","1","/","2","0","2","4","5">>
DateCells == {Str(Date_05_05_2024), Str(V_5_1_2024), Str(V_2024_01_05), Str(V_5_1_24),
              Str(V_5_1_2024_Blank), Str(V_05_01_20245), Num(45000)}
DatedRepaymentRows == {RepaymentRow(dateCell, Num(60)) : dateCell \in DateCells}
RepaymentSheetRows ==
    <<RepaymentRow(Str(Date_05_05_2024), Num(0)), RepaymentRow(Str(Date_5_6_2024), Num(60)),
      RepaymentRow(Str(V_Total), Num(60))>>

\* worksheets: data rows with a header row, with a title row and a header
\* row, and without a header row; and three repayment worksheets
InvestmentSheets ==
    LET lists == SeqsUpTo(InvestmentRows, MaxRows)
    IN  {<<InvestmentHeaderRow>> \o rows : rows \in lists}
          \cup {<<<<Str(V_Portfolio)>>, InvestmentHeaderRow>> \o rows : rows \in lists}
          \cup lists
          \cup {<<InvestmentHeaderRowNet, InvestmentRowNet>>}
RepaymentSheets ==
    {<<RepaymentHeaderRow>> \o RepaymentSheetRows,
     <<RepaymentHeaderRowSeparate>> \o RepaymentSheetRows,
     <<>>}
      \cup {<<RepaymentHeaderRow>> \o rows : rows \in SeqsUpTo(DatedRepaymentRows, MaxRows)}

NotParsed == <<>>

InitParse ==
    /\ sheet \in InvestmentSheets \cup RepaymentSheets
    /\ parsed = NotParsed
    /\ now \in NowSet
    /\ bondData = <<>>
    /\ repaymentData = <<>>
    /\ pivotData = EmptyObject
    /\ isUploading = FALSE
    /\ hasData = FALSE
    /\ toasts = <<>>
    /\ uploads = <<>>
    /\ durationFilter = "All Time"
    /\ durationView = "Months"
    /\ selectedBond = NoSelection
    /\ memo = NoMemo

\* const parsedData = cleanAndParseData(worksheet)
CleanAndParseData ==
    /\ parsed' = <<[parser |-> "cleanAndParseData", result |-> cleanAndParseData(sheet, now)]>>
    /\ UNCHANGED <<bondData, repaymentData, pivotData, isUploading, hasData, toasts, uploads,
                   durationFilter, durationView, selectedBond, now, sheet, memo>>

\* repaymentParsedData = cleanAndParseRepaymentData(repaymentWorksheet)
CleanAndParseRepaymentData ==
    /\ parsed' = <<[parser |-> "cleanAndParseRepaymentData",
                    result |-> cleanAndParseRepaymentData(sheet)]>>
    /\ UNCHANGED <<bondData, repaymentData, pivotData, isUploading, hasData, toasts, uploads,
                   durationFilter, durationView, selectedBond, now, sheet, memo>>

NextParse == CleanAndParseData \/ CleanAndParseRepaymentData

SpecParse == InitParse /\ [][NextParse]_vars

ParsedInvestments ==
    IF parsed # NotParsed /\ parsed[1].parser = "cleanAndParseData" /\ ~parsed[1].result.threw
    THEN parsed[1].result.data ELSE <<>>

\* C8: every record cleanAndParseData returns has a non-empty bondName and
\* an investedAmount that is a number strictly greater than 0 (a row whose
\* amount cell is 0, negative, absent or not a positive number is left out).
C8_RowRejection ==
    \A i \in 1..Len(ParsedInvestments) :
        /\ ParsedInvestments[i].bondName # <<>>
        /\ ParsedInvestments[i].investedAmount # NaN
        /\ ParsedInvestments[i].investedAmount > 0

\* What cleanAndParseRepaymentData returned for the worksheet of the state
ParsedRepayments ==
    IF parsed # NotParsed /\ parsed[1].parser = "cleanAndParseRepaymentData"
    THEN parsed[1].result.data ELSE <<>>

\* 1-2 digits, '/', 1-2 digits, '/', 4 digits, and nothing else
IsDayMonthYearShape(s) ==
    \E a, b \in 1..2 :
        /\ Len(s) = a + b + 6
        /\ \A i \in (1..a) \cup ((a + 2)..(a + b + 1)) \cup ((a + b + 3)..(a + b + 6)) :
              s[i] \in Digits
        /\ s[a + 1] = "/" /\ s[a + b + 2] = "/"

\* The date cell texts of the rows below the header that no other test of
\* the loop skips and whose date cell has the shape, in row order
DatesOfShape(rawData) ==
    LET h    == RepaymentHeaderRowIndex(rawData)
        cm   == RepaymentColumnMap(rawData[h])
        rows == SelectSeq(SubSeq(rawData, h + 1, Len(rawData)),
                          LAMBDA row : /\ ~SkipsRepaymentRow(row, cm)
                                       /\ IsDayMonthYearShape(CellText(CellAt(row, cm.date))))
    IN  [i \in 1..Len(rows) |-> CellText(CellAt(rows[i], cm.date))]

\* C16: every record cleanAndParseRepaymentData returns has a date of the
\* shape d/m/yyyy (1-2, 1-2 and 4 digits); a row whose date cell has another
\* shape is dropped, and the text of an accepted date cell is kept as it is.
C16_RepaymentDateStrictness ==
    (parsed # NotParsed /\ parsed[1].parser = "cleanAndParseRepaymentData"
        /\ RepaymentHeaderRowIndex(sheet) # -1) =>
        /\ \A i \in 1..Len(ParsedRepayments) : IsDayMonthYearShape(ParsedRepayments[i].date)
        /\ [i \in 1..Len(ParsedRepayments) |-> ParsedRepayments[i].date] = DatesOfShape(sheet)

\* A worksheet with the rows '2024-01-05' and '5/1/2024' gave one record,
\* dated '5/1/2024'.
C16_Witness ==
    /\ sheet = <<RepaymentHeaderRow, RepaymentRow(Str(V_2024_01_05), Num(60)),
                 RepaymentRow(Str(V_5_1_2024), Num(60))>>
    /\ Len(ParsedRepayments) = 1
    /\ ParsedRepayments[1].date = V_5_1_2024

\* Whether some cell of the row is a text containing sub (case-insensitive)
RowHasText(row, sub) ==
    \E k \in 1..Len(row) : Truthy(row[k]) /\ IsString(row[k])
                           /\ includes(toLowerCase(row[k].s), sub)

\* C17: the repayment header row is the first row in which some cell
\* contains 'date' and some cell, possibly another one, contains
\* 'name of bond'.
C17_HeaderWholeRow ==
    (parsed # NotParsed /\ parsed[1].parser = "cleanAndParseRepaymentData") =>
        RepaymentHeaderRowIndex(sheet) =
            FirstOf({i \in 1..Len(sheet) : /\ RowHasText(sheet[i], T_date)
                                           /\ RowHasText(sheet[i], T_name_of_bond)})

\* The JavaScript index of the leftmost of the header cells hits, or no
\* entry
LeftmostColumn(hits) == IF hits = {} THEN NoColumn ELSE FirstOf(hits) - 1

\* C18: for each recognized header semantic, columnMap has the index of the
\* first (leftmost) header cell that matches it; a later matching cell does
\* not replace it, and a semantic no cell matches has no entry.
C18_FirstMatchWins ==
    /\ (parsed # NotParsed /\ parsed[1].parser = "cleanAndParseData"
          /\ InvestmentHeaderRowIndex(sheet) # -1) =>
          LET headers == sheet[InvestmentHeaderRowIndex(sheet)]
          IN  \A field \in InvestmentFields :
                  InvestmentColumnMap(headers)[field] =
                      LeftmostColumn({k \in 1..Len(headers) :
                                        InvestmentFieldOf(headers[k]) = field})
    /\ (parsed # NotParsed /\ parsed[1].parser = "cleanAndParseRepaymentData"
          /\ RepaymentHeaderRowIndex(sheet) # -1) =>
          LET headers == sheet[RepaymentHeaderRowIndex(sheet)]
          IN  \A field \in RepaymentFields :
                  RepaymentColumnMap(headers)[field] =
                      LeftmostColumn({k \in 1..Len(headers) :
                                        RepaymentFieldOf(headers[k]) = field})

\* C19: no numeric field of a record the parsers return is NaN: an absent
\* column or a cell whose text is no decimal after stripping ('-', '.', text
\* without digits) gives 0.
C19_NumericNeverNaN ==
    /\ \A i \in 1..Len(ParsedInvestments) :
          /\ ParsedInvestments[i].investedAmount # NaN
          /\ ParsedInvestments[i].xirr # NaN
          /\ ParsedInvestments[i].units # NaN
    /\ \A i \in 1..Len(ParsedRepayments) :
          /\ ParsedRepayments[i].principalRepaid # NaN
          /\ ParsedRepayments[i].interestPaidBeforeTDS # NaN
          /\ ParsedRepayments[i].interestPaidAfterTDS # NaN

\* C20: when dateOfInvestment cannot be parsed as a date, the monthYear of
\* the record is the raw date text.
C20_MonthYearFallsBack ==
    \A i \in 1..Len(ParsedInvestments) :
        ~IsValidDate(DateOfCellText(ParsedInvestments[i].dateOfInvestment)) =>
            ParsedInvestments[i].monthYear = ParsedInvestments[i].dateOfInvestment

(***************************************************************************)
(* BondAnalyzer.handleFileUpload                                           *)
(***************************************************************************)

T_investment_summary == <<"i","n","v","e","s","t","m","e","n","t"," ","s","u","m","m","a","r","y">>
T_summary == <<"s","u","m","m","a","r","y">>
T_repayment_summary == <<"r","e","p","a","y","m","e","n","t"," ","s","u","m","m","a","r","y">>
T_repayment == <<"r","e","p","a","y","m","e","n","t">>
M_NoHeaderRow == <<"C","o","u","l","d"," ","n","o","t"," ","f","i","n","d"," ","h","e","a","d","e","r"," ","r","o","w"," ","i","n"," ","t","h","e"," ","E","x","c","e","l"," ","f","i","l","e">>
M_NoValidData == <<"N","o"," ","v","a","l","i","d"," ","b","o","n","d"," ","d","a","t","a"," ","f","o","u","n","d"," ","i","n"," ","t","h","e"," ","f","i","l","e">>
M_Processed == <<"P","r","o","c","e","s","s","e","d"," ">>
M_BondInvestments == <<" ","b","o","n","d"," ","i","n","v","e","s","t","m","e","n","t","s">>

\* A workbook is the sequence of its sheets in SheetNames order, each
\* [name, rows].
\* workbook.SheetNames.find(name => ...), as a 1-based index, -1 if none
InvestmentSheetFound(workbook) ==
    FirstOf({i \in 1..Len(workbook) :
               \/ includes(toLowerCase(workbook[i].name), T_investment_summary)
               \/ includes(toLowerCase(workbook[i].name), T_summary)})
\* ... || workbook.SheetNames[0]
InvestmentSheetIndex(workbook) ==
    IF InvestmentSheetFound(workbook) = -1 THEN 1 ELSE InvestmentSheetFound(workbook)
RepaymentSheetIndex(workbook) ==
    FirstOf({i \in 1..Len(workbook) :
               \/ includes(toLowerCase(workbook[i].name), T_repayment_summary)
               \/ includes(toLowerCase(workbook[i].name), T_repayment)})

RECURSIVE generatePivotData(_)
generatePivotData(data) ==
    LET activeData == SelectSeq(data, LAMBDA bond : ~bond.matured)
    IN  IF activeData = <<>> THEN EmptyObject
        ELSE LET bond == activeData[Len(activeData)]
             IN  PivotAccumulate(generatePivotData(SubSeq(activeData, 1, Len(activeData) - 1)),
                                 bond.bondIssuer, bond.bondIssuer, bond.monthYear,
                                 bond.investedAmount)

SuccessToast(count) ==
    [title       |-> "File uploaded successfully!",
     description |-> M_Processed \o NumToString(count) \o M_BondInvestments,
     variant     |-> "default"]
ErrorToast(message) ==
    [title |-> "Error processing file", description |-> message, variant |-> "destructive"]

\* The second half of the try block up to the parsers: the repayment sheet,
\* when there is one, is parsed after the investment sheet.  The result is
\* what the parsers gave, whether an exception reached the catch block, and
\* its message.
ParseRepaymentSheet(workbook, parsedData, repaymentIndex) ==
    [parsedData          |-> parsedData,
     repaymentParsedData |-> IF parsedData.threw \/ repaymentIndex = -1 THEN <<>>
                             ELSE cleanAndParseRepaymentData(workbook[repaymentIndex].rows).data,
     caught              |-> \/ parsedData.threw
                             \/ /\ repaymentIndex # -1
                                /\ cleanAndParseRepaymentData(workbook[repaymentIndex].rows).threw,
     message             |-> M_NoHeaderRow]

\* A file whose read fails: file.arrayBuffer() rejects or XLSX.read throws.
\* It has no sheets; the text of its error is the reader's, and stands here
\* as the text the catch block has for an error without a message.
Unreadable == <<>>
M_CheckFormat == <<"P","l","e","a","s","e"," ","c","h","e","c","k"," ","y","o","u","r"," ","f","i","l","e"," ","f","o","r","m","a","t"," ","a","n","d"," ","t","r","y"," ","a","g","a","i","n",".">>

\* The try block after the await, up to the parsers
ParseWorkbook(workbook, today) ==
    IF workbook = Unreadable
    THEN [parsedData |-> Threw, repaymentParsedData |-> <<>>, caught |-> TRUE,
          message |-> M_CheckFormat]
    ELSE ParseRepaymentSheet(workbook,
                             cleanAndParseData(workbook[InvestmentSheetIndex(workbook)].rows, today),
                             RepaymentSheetIndex(workbook))

\* if (parsedData.length === 0) throw new Error('No valid bond data found in the file')
ThrowIfEmpty(run) ==
    IF ~run.caught /\ Len(run.parsedData.data) = 0
    THEN [run EXCEPT !.caught = TRUE, !.message = M_NoValidData]
    ELSE run

\* An upload that lets an empty parsedData through.
UploadWithoutEmptyCheck(workbook, today) == ParseWorkbook(workbook, today)

\* The try block with its empty-data check: what reaches the catch block
UploadOutcome(workbook, today) == ThrowIfEmpty(ParseWorkbook(workbook, today))

(***************************************************************************)
(* Spec: uploads of workbooks into BondAnalyzer                            *)
(***************************************************************************)

MaxUploads == 2

N_InvestmentSummaryReport == <<"I","n","v","e","s","t","m","e","n","t"," ","S","u","m","m","a","r","y"," ","R","e","p","o","r","t">>
N_RepaymentSummaryReport == <<"R","e","p","a","y","m","e","n","t"," ","S","u","m","m","a","r","y"," ","R","e","p","o","r","t">>
N_Sheet1 == <<"S","h","e","e","t","1">>
N_Repayments == <<"R","e","p","a","y","m","e","n","t","s">>

Sheet(name, rows) == [name |-> name, rows |-> rows]

\* investment sheets: two accepted rows; one row with amount "-" and a
\* total row; no header row; a header row and no accepted row
InvTwoRows ==
    Sheet(N_InvestmentSummaryReport,
          <<InvestmentHeaderRow, InvestmentRow(Str(NameA1), Num(100)),
            InvestmentRow(Str(NameA2), Str(V_1000))>>)
InvDashRow ==
    Sheet(N_InvestmentSummaryReport,
          <<<<Str(V_Portfolio)>>, InvestmentHeaderRow, InvestmentRow(Str(NameA1), Str(V_Dash)),
            InvestmentRow(Str(V_Total), Num(100))>>)
InvNoHeader ==
    Sheet(N_InvestmentSummaryReport,
          <<InvestmentRow(Str(NameA1), Num(100)), InvestmentRow(Str(NameA2), Num(100))>>)
InvNoRecord ==
    Sheet(N_InvestmentSummaryReport,
          <<InvestmentHeaderRow, InvestmentRow(Str(NameA1), Num(0)),
            InvestmentRow(Str(NameA1), Blank)>>)
FirstSheetOneRow ==
    Sheet(N_Sheet1, <<InvestmentHeaderRow, InvestmentRow(Str(NameB7), Num(100))>>)
\* repayment sheets: with a header the predicate accepts, with "Date" and
\* "Name of Bond" in separate cells, and an empty sheet named "Repayments"
RepWithHeader == Sheet(N_RepaymentSummaryReport, <<RepaymentHeaderRow>> \o RepaymentSheetRows)
RepNoHeader ==
    Sheet(N_RepaymentSummaryReport, <<RepaymentHeaderRowSeparate>> \o RepaymentSheetRows)
RepEmpty == Sheet(N_Repayments, <<>>)

Workbooks ==
    {<<InvTwoRows>>, <<InvTwoRows, RepWithHeader>>, <<InvTwoRows, RepNoHeader>>,
     <<InvDashRow, RepEmpty>>, <<InvNoHeader>>, <<InvNoHeader, RepWithHeader>>,
     <<InvNoRecord>>, <<InvNoRecord, RepNoHeader>>, <<FirstSheetOneRow>>,
     <<FirstSheetOneRow, RepEmpty>>, <<FirstSheetOneRow, RepNoHeader>>,
     <<RepWithHeader, InvTwoRows>>, Unreadable}

\* useState initial values of BondAnalyzer; BondAnalysisView is not mounted
Init ==
    /\ bondData = <<>>
    /\ repaymentData = <<>>
    /\ pivotData = EmptyObject
    /\ isUploading = FALSE
    /\ hasData = FALSE
    /\ toasts = <<>>
    /\ uploads = <<>>
    /\ durationFilter = "All Time"
    /\ durationView = "Months"
    /\ selectedBond = NoSelection
    /\ now = Today2024
    /\ sheet = <<>>
    /\ parsed = NotParsed
    /\ memo = NoMemo

\* handleFileUpload up to "await file.arrayBuffer()"; the button that opens
\* the file dialog is disabled while isUploading
HandleFileUpload(workbook) ==
    /\ ~isUploading
    /\ Len(toasts) + Len(uploads) < MaxUploads
    /\ isUploading' = TRUE
    /\ uploads' = Append(uploads, workbook)
    /\ UNCHANGED <<bondData, repaymentData, pivotData, hasData, toasts, durationFilter,
                   durationView, selectedBond, now, sheet, parsed, memo>>

\* A settling that stores the parsed investments before the outcome is known.
SettleUploadPartly(workbook, outcome) ==
    /\ sheet' = workbook
    /\ parsed' = <<[parsedData          |-> outcome.parsedData,
                    repaymentParsedData |-> outcome.repaymentParsedData]>>
    /\ bondData' = outcome.parsedData.data
    /\ IF outcome.caught
       THEN /\ toasts' = Append(toasts, ErrorToast(outcome.message))
            /\ UNCHANGED <<repaymentData, pivotData, hasData>>
       ELSE /\ repaymentData' = outcome.repaymentParsedData
            /\ pivotData' = generatePivotData(outcome.parsedData.data)
            /\ hasData' = TRUE
            /\ toasts' = Append(toasts, SuccessToast(Len(outcome.parsedData.data)))
    /\ uploads' = Tail(uploads)
    /\ isUploading' = FALSE
    /\ UNCHANGED <<durationFilter, durationView, selectedBond, now>>
    /\ memo' = IF outcome.caught THEN memo
               ELSE Render(memo, outcome.parsedData.data, durationFilter, durationView, now)

\* A settling without the finally block: the flag is reset on success only.
SettleUploadNoFinally(workbook, outcome) ==
    /\ sheet' = workbook
    /\ parsed' = <<[parsedData          |-> outcome.parsedData,
                    repaymentParsedData |-> outcome.repaymentParsedData]>>
    /\ IF outcome.caught
       THEN /\ toasts' = Append(toasts, ErrorToast(outcome.message))
            /\ UNCHANGED <<bondData, repaymentData, pivotData, hasData, isUploading>>
       ELSE /\ bondData' = outcome.parsedData.data
            /\ repaymentData' = outcome.repaymentParsedData
            /\ pivotData' = generatePivotData(outcome.parsedData.data)
            /\ hasData' = TRUE
            /\ toasts' = Append(toasts, SuccessToast(Len(outcome.parsedData.data)))
            /\ isUploading' = FALSE
    /\ uploads' = Tail(uploads)
    /\ UNCHANGED <<durationFilter, durationView, selectedBond, now>>
    /\ memo' = IF outcome.caught THEN memo
               ELSE Render(memo, outcome.parsedData.data, durationFilter, durationView, now)

\* A settling that adds the new repayments to those already held.
SettleUploadMerging(workbook, outcome) ==
    /\ sheet' = workbook
    /\ parsed' = <<[parsedData          |-> outcome.parsedData,
                    repaymentParsedData |-> outcome.repaymentParsedData]>>
    /\ IF outcome.caught
       THEN /\ toasts' = Append(toasts, ErrorToast(outcome.message))
            /\ UNCHANGED <<bondData, repaymentData, pivotData, hasData>>
       ELSE /\ bondData' = outcome.parsedData.data
            /\ repaymentData' = repaymentData \o outcome.repaymentParsedData
            /\ pivotData' = generatePivotData(outcome.parsedData.data)
            /\ hasData' = TRUE
            /\ toasts' = Append(toasts, SuccessToast(Len(outcome.parsedData.data)))
    /\ uploads' = Tail(uploads)
    /\ isUploading' = FALSE
    /\ UNCHANGED <<durationFilter, durationView, selectedBond, now>>
    /\ memo' = IF outcome.caught THEN memo
               ELSE Render(memo, outcome.parsedData.data, durationFilter, durationView, now)

\* The setters, the toast and the finally block, for the outcome of the try
\* block
SettleUpload(workbook, outcome) ==
    /\ sheet' = workbook
    /\ parsed' = <<[parsedData          |-> outcome.parsedData,
                    repaymentParsedData |-> outcome.repaymentParsedData]>>
    /\ IF outcome.caught
       THEN /\ toasts' = Append(toasts, ErrorToast(outcome.message))
            /\ UNCHANGED <<bondData, repaymentData, pivotData, hasData>>
       ELSE /\ bondData' = outcome.parsedData.data
            /\ repaymentData' = outcome.repaymentParsedData
            /\ pivotData' = generatePivotData(outcome.parsedData.data)
            /\ hasData' = TRUE
            /\ toasts' = Append(toasts, SuccessToast(Len(outcome.parsedData.data)))
    /\ uploads' = Tail(uploads)
    /\ isUploading' = FALSE
    /\ UNCHANGED <<durationFilter, durationView, selectedBond, now>>
    /\ memo' = IF outcome.caught THEN memo
               ELSE Render(memo, outcome.parsedData.data, durationFilter, durationView, now)

\* handleFileUpload after the await: try, catch and finally
HandleFileUploadResume ==
    /\ uploads # <<>>
    /\ SettleUpload(Head(uploads), UploadOutcome(Head(uploads), now))

Next ==
    \/ \E workbook \in Workbooks : HandleFileUpload(workbook)
    \/ HandleFileUploadResume

Spec == Init /\ [][Next]_vars

\* The step that completes an upload (handleFileUpload after the await)
UploadCompletes == Len(uploads') < Len(uploads)

\* The workbook has no sheet named for repayments, or that sheet has no row
\* with a cell satisfying the repayment header predicate
RepaymentProblem(workbook) ==
    \/ RepaymentSheetIndex(workbook) = -1
    \/ LET rows == workbook[RepaymentSheetIndex(workbook)].rows
       IN  \A i \in 1..Len(rows) : \A k \in 1..Len(rows[i]) : ~IsRepaymentHeaderCell(rows[i][k])

\* C9: when the workbook has no repayment sheet, or its repayment sheet has
\* no header row, the repayment set is empty and the upload ends as it would
\* from the investment sheet alone: with records accepted, bondData is those
\* records, repaymentData is empty and the success notification is shown;
\* the only failures are those of the investment sheet.
C9_RepaymentNeverFatal ==
    [][(UploadCompletes /\ Head(uploads) # Unreadable /\ RepaymentProblem(Head(uploads))) =>
         LET workbook    == Head(uploads)
             investments == cleanAndParseData(workbook[InvestmentSheetIndex(workbook)].rows, now)
         IN  /\ parsed'[1].repaymentParsedData = <<>>
             /\ IF investments.threw \/ Len(investments.data) = 0
                THEN /\ Len(toasts') = Len(toasts) + 1
                     /\ toasts'[Len(toasts')].variant = "destructive"
                ELSE /\ bondData' = investments.data
                     /\ repaymentData' = <<>>
                     /\ hasData'
                     /\ toasts' = Append(toasts, SuccessToast(Len(investments.data)))]_vars

\* An upload of an accepted investment sheet and a repayment sheet without a
\* header row has succeeded, after an earlier upload.
C9_Witness ==
    /\ Len(toasts) = 2 /\ uploads = <<>>
    /\ sheet # Unreadable /\ RepaymentSheetIndex(sheet) # -1 /\ RepaymentProblem(sheet)
    /\ Len(sheet[RepaymentSheetIndex(sheet)].rows) > 0
    /\ toasts[2] = SuccessToast(2)
    /\ Len(bondData) = 2 /\ repaymentData = <<>>

\* C10: an upload whose investment sheet has no header row, or yields no
\* accepted record, ends with exactly one notification, the failure one;
\* otherwise it ends with exactly one notification, the success one, which
\* carries the number of parsed investment records.
C10_UploadOutcome ==
    [][(UploadCompletes /\ Head(uploads) # Unreadable) =>
         LET workbook == Head(uploads)
             rows     == workbook[InvestmentSheetIndex(workbook)].rows
             noHeader == \A i \in 1..Len(rows) : \A k \in 1..Len(rows[i]) :
                            ~IsInvestmentHeaderCell(rows[i][k])
             records  == cleanAndParseData(rows, now).data
         IN  /\ Len(toasts') = Len(toasts) + 1
             /\ SubSeq(toasts', 1, Len(toasts)) = toasts
             /\ IF noHeader \/ Len(records) = 0
                THEN /\ toasts'[Len(toasts')].variant = "destructive"
                     /\ toasts'[Len(toasts')].title = "Error processing file"
                ELSE /\ toasts'[Len(toasts')].variant # "destructive"
                     /\ toasts'[Len(toasts')].title = "File uploaded successfully!"
                     /\ toasts'[Len(toasts')].description =
                           M_Processed \o NumToString(Len(records)) \o M_BondInvestments
                     /\ bondData' = records]_vars

\* After a successful upload of two records, an upload without a header row
\* has failed, and the data of the first upload is still shown.
C10_Witness ==
    /\ Len(toasts) = 2 /\ uploads = <<>>
    /\ toasts[1] = SuccessToast(2)
    /\ toasts[2] = ErrorToast(M_NoHeaderRow)
    /\ parsed[1].parsedData.threw
    /\ hasData /\ Len(bondData) = 2

\* The completing step took the error path: its notification is the failure one
UploadFails == UploadCompletes /\ toasts'[Len(toasts')].variant = "destructive"

\* C11: an upload that ends in the error path (the file read failed, no
\* header row, or no accepted record) leaves bondData, repaymentData,
\* pivotData and hasData as they were before it started.
C11_FailedUploadKeepsData ==
    [][UploadFails => UNCHANGED <<bondData, repaymentData, pivotData, hasData>>]_vars

\* After a successful upload with repayments or without, an upload without
\* an accepted record has failed and the earlier data is all there.
C11_Witness ==
    /\ Len(toasts) = 2 /\ uploads = <<>>
    /\ toasts[2] = ErrorToast(M_NoValidData)
    /\ Len(parsed[1].parsedData.data) = 0 /\ ~parsed[1].parsedData.threw
    /\ hasData /\ Len(bondData) = 2 /\ Len(repaymentData) = 2
    /\ pivotData = generatePivotData(bondData) /\ pivotData # EmptyObject

\* The step of HandleFileUploadResume, told by what it does to uploads: it is
\* enabled exactly when an upload awaits its file read, and within Next only
\* HandleFileUploadResume shortens uploads.
FileReadSettles == uploads # <<>> /\ uploads' = Tail(uploads)

\* The continuation after "await file.arrayBuffer()" runs once the read has
\* settled (the promise resolves or rejects): weak fairness of that step.
SpecLive == Init /\ [][Next]_vars /\ WF_uploads(FileReadSettles)

\* C12: every upload that starts eventually resets isUploading, on the
\* success path and on every failure path, and the step that completes it
\* emits exactly one notification; no other step emits any.
C12_UploadSettles ==
    /\ isUploading ~> ~isUploading
    /\ [][UploadCompletes => (~isUploading' /\ Len(toasts') = Len(toasts) + 1
                              /\ SubSeq(toasts', 1, Len(toasts)) = toasts)]_vars
    /\ [][toasts' # toasts => UploadCompletes]_vars

\* A rejected file read and then a successful upload have both reset the flag.
C12_Witness ==
    /\ ~isUploading /\ uploads = <<>>
    /\ Len(toasts) = 2
    /\ toasts[1] = ErrorToast(M_CheckFormat)
    /\ toasts[2] = SuccessToast(1)

\* C13: a successful upload replaces the record sets: bondData and
\* repaymentData are exactly the records parsed from the new file (none when
\* it has no repayment sheet) and pivotData is derived from the new bondData.
C13_UploadReplaces ==
    [][(UploadCompletes /\ ~UploadFails) =>
         LET workbook   == Head(uploads)
             repayments == IF RepaymentSheetIndex(workbook) = -1 THEN <<>>
                           ELSE cleanAndParseRepaymentData(
                                    workbook[RepaymentSheetIndex(workbook)].rows).data
         IN  /\ bondData' = cleanAndParseData(workbook[InvestmentSheetIndex(workbook)].rows,
                                              now).data
             /\ repaymentData' = repayments
             /\ pivotData' = generatePivotData(bondData')]_vars

\* The two records of an earlier upload have been replaced by the one record
\* of a workbook that has no repayment sheet.
C13_Witness ==
    /\ Len(toasts) = 2 /\ uploads = <<>>
    /\ toasts[1] = SuccessToast(2) /\ toasts[2] = SuccessToast(1)
    /\ sheet = <<FirstSheetOneRow>>
    /\ Len(bondData) = 1 /\ bondData[1].bondName = NameB7
    /\ repaymentData = <<>>
    /\ DOMAIN pivotData = {bondData[1].bondIssuer}

(***************************************************************************)
(* SpecMemo: uploads, then filter and view changes in BondAnalysisView      *)
(***************************************************************************)

\* The clock stays within the day of Init: the factory of filteredData reads
\* new Date(), which is no dependency of its cell.
NextMemo ==
    \/ \E workbook \in Workbooks : HandleFileUpload(workbook)
    \/ HandleFileUploadResume
    \/ \E filter \in DurationFilters : SetDurationFilter(filter)
    \/ \E view \in DurationViews : SetDurationView(view)

SpecMemo == Init /\ [][NextMemo]_vars

\* C15: whatever uploads, filter changes and view changes came before, the
\* filtered set, the filtered pivot, the issuer totals and the ordered time
\* periods that BondAnalysisView shows are those recomputed from the current
\* bondData, durationFilter and durationView.
C15_NoStaleAggregates ==
    hasData =>
        /\ memo.filteredData.value = FilteredNow
        /\ memo.filteredPivotData.value = PivotNow
        /\ memo.issuerTotals.value = issuerTotals(PivotNow)
        /\ memo.allTimePeriods.value = allTimePeriods(PivotNow, durationView)

\* Two successful uploads with a filter change and a view change among them:
\* the cells hold the one record of the second workbook, by quarter.
C15_Witness ==
    /\ Len(toasts) = 2 /\ toasts[1] = SuccessToast(2) /\ toasts[2] = SuccessToast(1)
    /\ durationFilter = "This Year" /\ durationView = "Quarters"
    /\ Len(memo.filteredData.value) = 1
    /\ memo.filteredData.value[1].bondName = NameB7
    /\ memo.allTimePeriods.value = << <<"Q", "1", " ", "2", "0", "2", "4">> >>
    /\ DOMAIN memo.issuerTotals.value = {<<"B">>}

(***************************************************************************)
(* The earlier BondAnalyzer: investments only, file inputs opened by labels *)
(***************************************************************************)

MaxEarlierUploads == 3

\* new Date(text) for text that is not an ISO date: the engines read
\* "a/b/yyyy" as month a, day b, and give an invalid Date for a month
\* outside 1..12, a day outside 1..31 or any other text of the inputs here.
NewDateSlashText(s) ==
    LET parts == split(s, "/")
    IN  IF Len(parts) = 3 /\ \A i \in 1..3 : IsDigitString(parts[i])
           /\ DigitsToNat(parts[1]) \in 1..12 /\ DigitsToNat(parts[2]) \in 1..31
        THEN NewDateYMD(DigitsToNat(parts[3]), DigitsToNat(parts[1]) - 1,
                        DigitsToNat(parts[2]))
        ELSE InvalidDate

\* s.replace(/-\d+$/, '')
ReplaceDashNumber(s) ==
    IF \E i \in 1..(Len(s) - 1) : s[i] = "-" /\ IsDigitString(SubSeq(s, i + 1, Len(s)))
    THEN LET i == CHOOSE k \in 1..(Len(s) - 1) :
                      s[k] = "-" /\ IsDigitString(SubSeq(s, k + 1, Len(s)))
         IN  SubSeq(s, 1, i - 1)
    ELSE s

Earlier_extractBondIssuer(bondName) ==
    trim(ReplaceSuffix(ReplaceDashNumber(bondName), "number"))

Earlier_formatMonthYear(dateStr) == toLocaleMonthYear(NewDateSlashText(dateStr))

Earlier_isMatured(maturityDateStr, today) ==
    JsLt(getTime(NewDateSlashText(maturityDateStr)), NowTime(today))

\* The BondData literal of the earlier cleanAndParseData: the final one's,
\* with the earlier bondIssuer, matured and monthYear helpers.
Earlier_BondOfRow(row, columnMap, today) ==
    [BondOfRow(row, columnMap, today) EXCEPT
        !.bondIssuer = Earlier_extractBondIssuer(CellText(CellAt(row, columnMap.bondName))),
        !.matured   = Earlier_isMatured(CellText(CellAt(row, columnMap.maturityDate)), today),
        !.monthYear = Earlier_formatMonthYear(CellText(CellAt(row, columnMap.dateOfInvestment)))]

RECURSIVE Earlier_InvestmentRecords(_, _, _)
Earlier_InvestmentRecords(rows, columnMap, today) ==
    IF rows = <<>> THEN <<>>
    ELSE (IF AcceptsInvestmentRow(Head(rows), columnMap)
          THEN <<Earlier_BondOfRow(Head(rows), columnMap, today)>> ELSE <<>>)
         \o Earlier_InvestmentRecords(Tail(rows), columnMap, today)

\* The header search, the column map and the row tests are those of the
\* final cleanAndParseData, line for line.
Earlier_cleanAndParseData(rawData, today) ==
    LET headerRowIndex == InvestmentHeaderRowIndex(rawData)
    IN  IF headerRowIndex = -1 THEN Threw
        ELSE Returned(Earlier_InvestmentRecords(
                          SubSeq(rawData, headerRowIndex + 1, Len(rawData)),
                          InvestmentColumnMap(rawData[headerRowIndex]), today))

\* issuer -> bond name -> month -> amount, over all the records
RECURSIVE Earlier_generatePivotData(_)
Earlier_generatePivotData(data) ==
    IF data = <<>> THEN EmptyObject
    ELSE LET bond == data[Len(data)]
         IN  PivotAccumulate(Earlier_generatePivotData(SubSeq(data, 1, Len(data) - 1)),
                             bond.bondIssuer, bond.bondName, bond.monthYear,
                             bond.investedAmount)

\* The try block of the earlier handleFileUpload: what reaches the catch block
Earlier_UploadOutcome(workbook, today) ==
    IF workbook = Unreadable
    THEN [parsedData |-> Threw, caught |-> TRUE, message |-> M_CheckFormat]
    ELSE LET parsedData ==
                 Earlier_cleanAndParseData(workbook[InvestmentSheetIndex(workbook)].rows, today)
         IN  [parsedData |-> parsedData,
              caught     |-> parsedData.threw \/ Len(parsedData.data) = 0,
              message    |-> IF parsedData.threw THEN M_NoHeaderRow ELSE M_NoValidData]

EarlierWorkbooks ==
    {<<InvTwoRows>>, <<FirstSheetOneRow>>, <<InvNoRecord>>, <<InvNoHeader>>, Unreadable}

\* useState initial values of the earlier BondAnalyzer, which has no
\* repaymentData
InitEarlier ==
    /\ bondData = <<>>
    /\ repaymentData = <<>>
    /\ pivotData = EmptyObject
    /\ isUploading = FALSE
    /\ hasData = FALSE
    /\ toasts = <<>>
    /\ uploads = <<>>
    /\ durationFilter = "All Time"
    /\ durationView = "Months"
    /\ selectedBond = NoSelection
    /\ now = Today2024
    /\ sheet = <<>>
    /\ parsed = NotParsed
    /\ memo = NoMemo

\* handleFileUpload up to the await
Earlier_StartUpload(workbook) ==
    /\ Len(toasts) + Len(uploads) < MaxEarlierUploads
    /\ isUploading' = TRUE
    /\ uploads' = Append(uploads, workbook)
    /\ UNCHANGED <<bondData, repaymentData, pivotData, hasData, toasts, durationFilter,
                   durationView, selectedBond, now, sheet, parsed, memo>>

\* The first screen (no data yet): the label of input "file-upload" holds a
\* button that is disabled while isUploading
ChooseFile(workbook) ==
    /\ ~hasData
    /\ ~isUploading
    /\ Earlier_StartUpload(workbook)

\* The dashboard: the label of input "file-upload-new" holds a button
\* without a disabled attribute
UploadNewFile(workbook) ==
    /\ hasData
    /\ Earlier_StartUpload(workbook)

\* The setters, the toast and the finally block of the earlier handleFileUpload
Earlier_SettleUpload(i, outcome) ==
    /\ sheet' = uploads[i]
    /\ parsed' = <<[parsedData |-> outcome.parsedData, repaymentParsedData |-> <<>>]>>
    /\ IF outcome.caught
       THEN /\ toasts' = Append(toasts, ErrorToast(outcome.message))
            /\ UNCHANGED <<bondData, pivotData, hasData>>
       ELSE /\ bondData' = outcome.parsedData.data
            /\ pivotData' = Earlier_generatePivotData(outcome.parsedData.data)
            /\ hasData' = TRUE
            /\ toasts' = Append(toasts, SuccessToast(Len(outcome.parsedData.data)))
    /\ uploads' = SubSeq(uploads, 1, i - 1) \o SubSeq(uploads, i + 1, Len(uploads))
    /\ isUploading' = FALSE
    /\ UNCHANGED <<repaymentData, durationFilter, durationView, selectedBond, now, memo>>

\* The continuation of an upload in flight, after its own file read settled;
\* the reads of two uploads settle in either order
Earlier_HandleFileUploadResume(i) ==
    /\ i \in 1..Len(uploads)
    /\ Earlier_SettleUpload(i, Earlier_UploadOutcome(uploads[i], now))

NextEarlier ==
    \/ \E workbook \in EarlierWorkbooks : ChooseFile(workbook)
    \/ \E workbook \in EarlierWorkbooks : UploadNewFile(workbook)
    \/ \E i \in 1..Len(uploads) : Earlier_HandleFileUploadResume(i)

SpecEarlier == InitEarlier /\ [][NextEarlier]_vars

\* C14: uploads are serialized: at most one execution of handleFileUpload is
\* between its start and its completion.
C14_UploadsSerialized == Len(uploads) <= 1


\* The missed months the table reports on a series row when the investment
\* rows are uploaded in the order p, as a set
MissedSetUnder(p, key, issuer) ==
    LET months == hasMissedInterestPayments(
                      filteredData(Permute(bondData, p), durationFilter, now),
                      repaymentData, key, issuer, now)
    IN  {months[i] : i \in 1..Len(months)}

\* C29: the missed-interest months reported for a bond-series row are the
\* same for every permutation of the investment rows, also for a series
\* with several tranches of different investment or maturity dates.
C29_MissedMonthsOrderIndependent ==
    \A issuer \in DOMAIN PivotNow : \A key \in DOMAIN PivotNow[issuer] :
        \A p, q \in RowOrders(Len(bondData)) :
            MissedSetUnder(p, key, issuer) = MissedSetUnder(q, key, issuer)

\* C25: when two uploads overlap, the one started last is the one that
\* completes last (so the record sets after both are those of the upload
\* started last), and isUploading is true whenever at least one upload is
\* still in progress.
C25_OverlappingUploads ==
    [][/\ uploads' # <<>> => isUploading'
       /\ (Len(uploads) = 2 /\ Len(uploads') = 1) => uploads' = <<uploads[2]>>]_vars

(***************************************************************************)
(* The shape of the pivots (Spec)                                          *)
(***************************************************************************)

\* The series keys of the investments of an issuer in a list: by bondName,
\* and by bondName|isin
SeriesNamesOf(data, issuer) ==
    {data[i].bondName : i \in {k \in 1..Len(data) : data[k].bondIssuer = issuer}}
SeriesKeysOf(data, issuer) ==
    {bondKey(data[i]) : i \in {k \in 1..Len(data) : data[k].bondIssuer = issuer}}

\* The investments a pivot is built from: the active ones
ActiveNow == SelectSeq(bondData, LAMBDA bond : ~bond.matured)

\* Whether the second level of a pivot over a list is keyed by bond series
KeyedBySeries(pivot, data) ==
    \A issuer \in DOMAIN pivot :
        \/ DOMAIN pivot[issuer] = SeriesNamesOf(data, issuer)
        \/ DOMAIN pivot[issuer] = SeriesKeysOf(data, issuer)

\* C23: in the pivot produced at upload (generatePivotData) and in the
\* filtered pivot alike, each second-level key under an issuer is the
\* bondName (or bondName|isin) of an investment of that issuer, so the
\* number of second-level keys under an issuer equals its number of
\* distinct bond series.
C23_PivotShape ==
    /\ KeyedBySeries(pivotData, ActiveNow)
    /\ hasData => KeyedBySeries(PivotNow, FilteredNow)


(***************************************************************************)
(* The sheets an upload reads (Spec)                                       *)
(***************************************************************************)

\* The sheets of a workbook that are named as an investment summary, and as
\* a repayment summary
InvestmentSummarySheets(workbook) ==
    {i \in 1..Len(workbook) : includes(toLowerCase(workbook[i].name), T_investment_summary)}
RepaymentSummarySheets(workbook) ==
    {i \in 1..Len(workbook) : includes(toLowerCase(workbook[i].name), T_repayment_summary)}

\* C30: when the workbook of an upload holds both an investment-summary
\* sheet and a repayment-summary sheet, the investment rows are read from
\* the investment sheet and the repayment rows from the repayment sheet,
\* whatever the order of the sheets: the sheet chosen for investments is
\* never the sheet chosen for repayments.
C30_SheetsKeptApart ==
    (/\ sheet # <<>>
     /\ InvestmentSummarySheets(sheet) # {}
     /\ RepaymentSummarySheets(sheet) # {}) =>
        /\ InvestmentSheetIndex(sheet) \in InvestmentSummarySheets(sheet)
        /\ RepaymentSheetIndex(sheet) \in RepaymentSummarySheets(sheet)
        /\ InvestmentSheetIndex(sheet) # RepaymentSheetIndex(sheet)

====
